---- MODULE Spec2Model ----
(***************************************************************************)
(* Traffic-Sense: the simulation engine (src/simulation.py) with its data  *)
(* model (src/models.py) and the persistence sink (src/database.py).       *)
(*                                                                         *)
(* Number representation.  The program computes with Python floats; the   *)
(* model uses fixed point:                                                 *)
(*   speeds         in tenths of a km/h          (80.0 km/h  is  800)      *)
(*   positions      in hundredths of a unit      (60.0 units is 6000)      *)
(*   probabilities  in hundredths                (0.3        is   30)      *)
(* so that  position += speed * 0.1  is  position += speed  and every      *)
(* product with 0.1, 0.2, 0.6 and 0.8 is an integer product followed by a  *)
(* floor division.                                                         *)
(*                                                                         *)
(* Randomness.  Every call of the random module is a nondeterministic      *)
(* choice (\E) over a set of representative outcomes held in env, which    *)
(* Init fixes for the whole behaviour.                                     *)
(***************************************************************************)
EXTENDS Integers, Sequences, FiniteSets, TLC

VARIABLES
    routes,              \* self.routes: the Route Catalog (a list)
    active_vehicles,     \* self.active_vehicles: dict, as the list of its values in insertion order
    ma_keys,             \* the key table of that dict, as its iterators see it
    simulation_running,  \* self.simulation_running
    simulation_thread,   \* self.simulation_thread: None, or the Thread last created
    vehicle_spawn_rate,  \* self.vehicle_spawn_rate
    worker,              \* the threads running simulation_loop, by thread
    caller,              \* the threads calling start_simulation / stop_simulation
    status,              \* the thread calling get_simulation_status
    db_vehicles,         \* table vehicles of the sink, by vehicle_id
    db_routes,           \* table routes of the sink, by route_id
    ticks,               \* number of _simulation_step calls begun so far
    env,                 \* the outcomes the random module, the clock and the sink may produce
    analytics            \* the call of TrafficAnalytics, of DatabaseManager, of Route or of the
                         \* constructor in progress, if any

vars == <<routes, active_vehicles, ma_keys, simulation_running, simulation_thread,
          vehicle_spawn_rate, worker, caller, status, db_vehicles, db_routes,
          ticks, env, analytics>>

-----------------------------------------------------------------------------
(* Bounds of the model *)

\* routes of the Catalog (the program draws CatalogSize of them)
MaxRoutes == 2
\* ticks begun in one behaviour of Spec
MaxTicks == 2
\* ticks begun in one behaviour of SpecStatus
MaxTicksStatus == 3
\* ticks begun in one behaviour of SpecTick
MaxTicksTick == 3
\* ticks begun in one behaviour of SpecCap
MaxTicksCap == 22
\* ticks begun in one behaviour of SpecClock
MaxTicksClock == 2
\* ticks begun before the end of a behaviour of SpecRace, which starts after
\* max_vehicles_per_route - 1 of them
MaxTicksRace == 21
\* ticks begun in one behaviour of SpecConstruct
MaxTicksConstruct == 2
\* ticks begun in one behaviour of SpecReuse
MaxTicksReuse == 4

(* Program constants *)

\* self.max_vehicles_per_route = 20
max_vehicles_per_route == 20
\* self.vehicle_despawn_rate = 0.1, in hundredths
vehicle_despawn_rate == 10
\* distance_to_end < 50, in hundredths of a unit
DespawnDistance == 5000
\* max(5, vehicle.current_speed), in tenths of a km/h
MinCongestedSpeed == 50
\* random.random() < 0.3 in _simulate_congestion, in hundredths
CongestionChance == 30

None == "None"

\* the value of _get_route_by_id when no route has the id (Python's None)
NoRoute == [route_id |-> None]

WorkerIds == {1, 2}
Callers == {"c1", "c2"}

-----------------------------------------------------------------------------
(* Arithmetic helpers *)

Max(a, b) == IF a >= b THEN a ELSE b
Min(a, b) == IF a <= b THEN a ELSE b

SetMin(S) == CHOOSE x \in S : \A y \in S : x <= y

RECURSIVE SqrtSearch(_, _, _)
SqrtSearch(n, lo, hi) ==
    IF lo >= hi THEN lo
    ELSE LET mid == (lo + hi + 1) \div 2
         IN  IF mid <= n \div mid THEN SqrtSearch(n, mid, hi)
             ELSE SqrtSearch(n, lo, mid - 1)

\* x ** 0.5 on the fixed-point grid: the floor of the square root
ISqrt(n) == SqrtSearch(n, 0, n)

Range(s) == {s[i] : i \in 1..Len(s)}

SeqRemove(s, i) == SubSeq(s, 1, i - 1) \o SubSeq(s, i + 1, Len(s))

-----------------------------------------------------------------------------
(* models.py *)

\* the uniform(lo, hi) range of max_speed for each vehicle type
MaxSpeedRange(vehicle_type) ==
    CASE vehicle_type = "car"        -> [lo |-> 800, hi |-> 1200]
      [] vehicle_type = "truck"      -> [lo |-> 600, hi |-> 900]
      [] vehicle_type = "bus"        -> [lo |-> 500, hi |-> 800]
      [] vehicle_type = "motorcycle" -> [lo |-> 900, hi |-> 1400]

VehicleTypes == {"car", "truck", "bus", "motorcycle"}

\* Vehicle.generate_random(vehicle_id, route_id): td is the type drawn by
\* random.choices with the max_speed drawn for it, frac (0..10) places
\* current_speed in uniform(0, max_speed * 0.8), and (px, py) is the
\* position drawn in uniform(0, 1000)
GenerateRandom(vehicle_id, route_id, td, frac, px, py) ==
    [vehicle_id    |-> vehicle_id,
     vehicle_type  |-> td.vehicle_type,
     current_speed |-> (((td.max_speed * 8) \div 10) * frac) \div 10,
     max_speed     |-> td.max_speed,
     route_id      |-> route_id,
     position_x    |-> px,
     position_y    |-> py]

\* Route(route_id, start_point, end_point, distance_km, route_name, speed_limit)
MkRoute(i, name, sx, sy, ex, ey, limit) ==
    [route_id    |-> i,
     start_point |-> <<sx, sy>>,
     end_point   |-> <<ex, ey>>,
     distance_km |-> ISqrt((ex - sx) * (ex - sx) + (ey - sy) * (ey - sy)) \div 100,
     route_name  |-> name,
     speed_limit |-> limit]

\* the list route_names of generate_routes
route_names ==
    <<"Main Street", "Highway 1", "Broadway", "Park Avenue", "Industrial Road",
      "City Center", "Suburban Loop", "Airport Highway", "University Drive",
      "Shopping District">>

\* the list random.choice draws a speed limit from
SpeedLimits == <<50, 60, 80, 100>>

Digit(k) == <<"0", "1", "2", "3", "4", "5", "6", "7", "8", "9">>[k + 1]

\* a faulty variant: both digits are the tens
RouteIdTens(n) == "route_" \o Digit(n \div 10) \o Digit(n \div 10)

\* f"route_{n:02d}" for 0 <= n < 100: the tens and the units of n
RouteIdOf(n) == "route_" \o Digit(n \div 10) \o Digit(n % 10)

\* Route.generate_routes(num_routes): draws[i] is what the random module
\* gives the i-th pass of the loop, the four coordinates and the index of the
\* speed limit chosen; the i-th pass has i - 1 for the loop variable
GenerateRoutes(num_routes, draws) ==
    [i \in 1..Min(num_routes, Len(route_names)) |->
        MkRoute(RouteIdOf(i), route_names[i],
                draws[i].start_x, draws[i].start_y, draws[i].end_x, draws[i].end_y,
                SpeedLimits[draws[i].choice])]

\* what the random module gives a call: every route runs from `start` to a
\* point (dx, dy) further, and the speed limits are chosen in turn from the
\* k-th on
RouteDraw(start, dx, dy, k) ==
    [i \in 1..Len(route_names) |->
        [start_x |-> start, start_y |-> start,
         end_x |-> start + dx, end_y |-> start + dy,
         choice |-> ((i + k) % Len(SpeedLimits)) + 1]]

-----------------------------------------------------------------------------
(* simulation.py: the dict self.active_vehicles *)

\* active_vehicles holds the values of the dict in the order of their
\* insertion, and ma_keys what CPython 3.11 keeps besides: dk_entries, the
\* entries of the key table in the order of their insertion, where a deleted
\* key leaves a dummy entry behind until an insertion finds no entry free and
\* rebuilds the table without them, and dk_usable, the number of entries
\* still free.  An iterator walks dk_entries by position, and it is in these
\* terms that it raises "dictionary changed size during iteration" and
\* "dictionary keys changed during iteration".

\* the entry a deleted key leaves behind
Dummy == <<"<dummy>", 0>>

\* no key
NoKey == <<None, 0>>

\* self.active_vehicles = {}: the key table of the empty dict has no entry
EmptyKeys == [dk_entries |-> <<>>, dk_usable |-> 0]

Keys(d) == {d[i].vehicle_id : i \in 1..Len(d)}

IndexOf(d, vehicle_id) == CHOOSE i \in 1..Len(d) : d[i].vehicle_id = vehicle_id

\* the entries that hold a key, in their order
LiveEntries(dk_entries) == SelectSeq(dk_entries, LAMBDA k : k # Dummy)

\* the least power of two from `size` on that is at least minsize
RECURSIVE KeysizeFrom(_, _)
KeysizeFrom(size, minsize) ==
    IF size >= minsize THEN size ELSE KeysizeFrom(2 * size, minsize)

\* the size of the table an insertion rebuilds for a dict of `used` keys:
\* the least power of two that is at least (3 * used) | 8
CalculateKeysize(used) ==
    LET minsize == 3 * used
    IN  KeysizeFrom(8, IF (minsize \div 8) % 2 = 1 THEN minsize ELSE minsize + 8)

\* the key table after a key that is not in it is inserted into a dict of
\* `used` keys: if no entry is free the table is rebuilt, two thirds of its
\* size being usable, and the key takes the next entry
KeysInsert(keys, used, vehicle_id) ==
    LET grown == IF keys.dk_usable <= 0
                 THEN [dk_entries |-> LiveEntries(keys.dk_entries),
                       dk_usable  |-> (2 * CalculateKeysize(used)) \div 3 - used]
                 ELSE keys
    IN  [dk_entries |-> Append(grown.dk_entries, vehicle_id),
         dk_usable  |-> grown.dk_usable - 1]

\* the key table after del d[vehicle_id]
KeysDelete(keys, vehicle_id) ==
    [keys EXCEPT !.dk_entries =
        [i \in 1..Len(keys.dk_entries) |->
            IF keys.dk_entries[i] = vehicle_id THEN Dummy ELSE keys.dk_entries[i]]]

\* the key table after d[vehicle_id] = v: a key that is present keeps its entry
KeysSet(keys, d, vehicle_id) ==
    IF vehicle_id \in Keys(d) THEN keys ELSE KeysInsert(keys, Len(d), vehicle_id)

\* d[vehicle_id] = v: a new key is appended, an existing key keeps its place
DictSet(d, v) ==
    IF v.vehicle_id \in Keys(d)
    THEN [d EXCEPT ![IndexOf(d, v.vehicle_id)] = v]
    ELSE Append(d, v)

\* del d[vehicle_id], for a key that is present
DictDel(d, vehicle_id) == SeqRemove(d, IndexOf(d, vehicle_id))

\* no iterator
NoIter == [di_used |-> 0, di_pos |-> 0, len |-> 0]

\* iter(d.values()) and iter(d.items()): the iterator remembers the size of
\* the dict, starts before the first entry and expects that many keys
DictIter(d) == [di_used |-> Len(d), di_pos |-> 0, len |-> Len(d)]

\* the position of the first entry after position pos that holds a key, 0 if
\* there is none
NextEntry(keys, pos) ==
    LET live == {i \in (pos + 1)..Len(keys.dk_entries) : keys.dk_entries[i] # Dummy}
    IN  IF live = {} THEN 0 ELSE SetMin(live)

\* faulty variant of DictIterNext: the iterator does not notice a change
DictIterNextUnchecked(it, d, keys) ==
    LET i == NextEntry(keys, it.di_pos)
    IN  IF i = 0
        THEN [kind |-> "StopIteration", key |-> NoKey, it |-> it]
        ELSE [kind |-> "value", key |-> keys.dk_entries[i],
              it |-> [it EXCEPT !.di_pos = i, !.len = @ - 1]]

\* next(it): RuntimeError if the dict has another size than when the iterator
\* was made; StopIteration if no entry that holds a key is left; RuntimeError
\* if one is left although the iterator has given as many keys as the dict
\* had; otherwise the key of that entry
DictIterNext(it, d, keys) ==
    IF it.di_used # Len(d)
    THEN [kind |-> "RuntimeError: dictionary changed size during iteration",
          key |-> NoKey, it |-> it]
    ELSE LET i == NextEntry(keys, it.di_pos)
         IN  IF i = 0
             THEN [kind |-> "StopIteration", key |-> NoKey, it |-> it]
             ELSE IF it.len = 0
             THEN [kind |-> "RuntimeError: dictionary keys changed during iteration",
                   key |-> NoKey, it |-> it]
             ELSE [kind |-> "value", key |-> keys.dk_entries[i],
                   it |-> [it EXCEPT !.di_pos = i, !.len = @ - 1]]

\* the two RuntimeErrors of next(it)
IterationErrors ==
    {"RuntimeError: dictionary changed size during iteration",
     "RuntimeError: dictionary keys changed during iteration"}

-----------------------------------------------------------------------------
(* simulation.py: the pure part of each step of a tick *)

\* _get_route_by_id: the first route of the Catalog with that id, or None
GetRouteById(rs, route_id) ==
    IF \E i \in 1..Len(rs) : rs[i].route_id = route_id
    THEN rs[CHOOSE i \in 1..Len(rs) :
                /\ rs[i].route_id = route_id
                /\ \A j \in 1..(i - 1) : rs[j].route_id # route_id]
    ELSE NoRoute

\* random.uniform(-max_speed * 0.2, max_speed * 0.2), f in -10..10 tenths of the bound
SpeedVariation(v, f) == (((v.max_speed * 2) \div 10) * f) \div 10

\* faulty variant of ClampSpeed: the upper clamp is missing
ClampSpeedUnbounded(v, s) == Max(0, s)

\* max(0, min(max_speed, current_speed + speed_variation))
ClampSpeed(v, s) == Max(0, Min(v.max_speed, s))

\* a faulty variant: the vehicle moves by the speed it has after the variation
UpdateVehiclePositionPerturbedFirst(rs, v, f) ==
    LET route == GetRouteById(rs, v.route_id)
    IN  IF route = NoRoute THEN v
        ELSE
        LET new_speed == ClampSpeed(v, v.current_speed + SpeedVariation(v, f))
            dx == route.end_point[1] - route.start_point[1]
            dy == route.end_point[2] - route.start_point[2]
            total_distance == ISqrt(dx * dx + dy * dy)
            moved ==
                IF total_distance > 0
                THEN [v EXCEPT
                        !.position_x = @ + (dx * new_speed) \div total_distance,
                        !.position_y = @ + (dy * new_speed) \div total_distance]
                ELSE v
        IN  [moved EXCEPT !.current_speed = new_speed]

\* _update_vehicle_position(vehicle) up to the speed variation: the vehicle
\* moves along its route by the speed it has
MoveVehicle(rs, v) ==
    LET route == GetRouteById(rs, v.route_id)
    IN  IF route = NoRoute THEN v
        ELSE
        LET distance_traveled == v.current_speed  \* current_speed * 0.1
            dx == route.end_point[1] - route.start_point[1]
            dy == route.end_point[2] - route.start_point[2]
            total_distance == ISqrt(dx * dx + dy * dy)
        IN  IF total_distance > 0
            THEN [v EXCEPT
                    !.position_x = @ + (dx * distance_traveled) \div total_distance,
                    !.position_y = @ + (dy * distance_traveled) \div total_distance]
            ELSE v

\* the speed _update_vehicle_position assigns, with the drawn variation f
VariedSpeed(v, f) == ClampSpeed(v, v.current_speed + SpeedVariation(v, f))

\* _update_vehicle_position(vehicle), with the drawn speed variation f, no
\* other thread writing to the vehicle meanwhile
UpdateVehiclePosition(rs, v, f) ==
    IF GetRouteById(rs, v.route_id) = NoRoute THEN v
    ELSE [MoveVehicle(rs, v) EXCEPT !.current_speed = VariedSpeed(v, f)]

\* vehicles_on_route in _spawn_new_vehicles
VehiclesOnRoute(d, route_id) ==
    Cardinality({i \in 1..Len(d) : d[i].route_id = route_id})

\* the spawn condition: under the limit, and random.random() < vehicle_spawn_rate
SpawnAllowed(vehicles_on_route, u, rate) ==
    /\ vehicles_on_route < max_vehicles_per_route
    /\ u < rate

\* new_vehicle of _spawn_new_vehicles, given the draws of generate_random:
\* generated for the route and positioned at its start point
NewVehicle(route, vehicle_id, td, frac) ==
    LET new_vehicle == GenerateRandom(vehicle_id, route.route_id, td, frac, 0, 0)
    IN  [new_vehicle EXCEPT
            !.position_x = route.start_point[1],
            !.position_y = route.start_point[2]]

\* the body of the spawn condition, given its draws, when no other thread
\* runs between its statements: the dict afterwards
SpawnVehicle(d, route, n, td, frac) ==
    LET vehicle_id == <<route.route_id, n>>
    IN  IF vehicle_id \notin Keys(d)
        THEN DictSet(d, NewVehicle(route, vehicle_id, td, frac))
        ELSE d

\* distance_to_end < 50, compared on the squares
NearRouteEnd(v, route) ==
    LET ddx == v.position_x - route.end_point[1]
        ddy == v.position_y - route.end_point[2]
    IN  ddx * ddx + ddy * ddy < DespawnDistance * DespawnDistance

\* faulty variant of ShouldRemove: a vehicle whose route is not in the Catalog
\* is removed only if its draw is below the rate
ShouldRemoveByDraw(rs, v, u) ==
    LET route == GetRouteById(rs, v.route_id)
    IN  IF route = NoRoute THEN u < vehicle_despawn_rate
        ELSE NearRouteEnd(v, route) \/ u < vehicle_despawn_rate

\* faulty variant of ShouldRemove: a vehicle near the end of its route is
\* removed only if its draw is below the rate as well
ShouldRemoveBoth(rs, v, u) ==
    LET route == GetRouteById(rs, v.route_id)
    IN  IF route = NoRoute THEN TRUE
        ELSE NearRouteEnd(v, route) /\ u < vehicle_despawn_rate

\* whether the scan of _remove_vehicles puts v on vehicles_to_remove, u being
\* the vehicle's random.random() draw
ShouldRemove(rs, v, u) ==
    LET route == GetRouteById(rs, v.route_id)
    IN  IF route = NoRoute THEN TRUE
        ELSE NearRouteEnd(v, route) \/ u < vehicle_despawn_rate

\* vehicles_to_remove after the scan, us[i] being the draw of the i-th vehicle
RECURSIVE VehiclesToRemove(_, _, _, _)
VehiclesToRemove(rs, d, us, i) ==
    IF i > Len(d) THEN <<>>
    ELSE (IF ShouldRemove(rs, d[i], us[i]) THEN <<d[i].vehicle_id>> ELSE <<>>)
         \o VehiclesToRemove(rs, d, us, i + 1)

\* datetime.now().hour, the time of day being in minutes after midnight
Hour(now) == now \div 60

\* is_rush_hour
IsRushHour(current_hour) ==
    (7 <= current_hour /\ current_hour <= 9) \/ (17 <= current_hour /\ current_hour <= 19)

\* the spawn rate _simulate_congestion sets, in hundredths
SpawnRateFor(current_hour) == IF IsRushHour(current_hour) THEN 50 ELSE 30

\* congestion_factor, in tenths
CongestionFactor(current_hour) == IF IsRushHour(current_hour) THEN 6 ELSE 10

\* vehicle.current_speed *= congestion_factor
SlowedSpeed(speed, factor) == (speed * factor) \div 10

\* a faulty variant: the speed is not held at the minimum
FlooredSpeedUnfloored(speed) == speed

\* max(5, vehicle.current_speed)
FlooredSpeed(speed) == Max(MinCongestedSpeed, speed)

-----------------------------------------------------------------------------
(* database.py: the sink, as far as a tick writes to it *)

\* a faulty variant: on a conflict the position is added to the stored one
InsertVehicleAccumulating(tbl, v) ==
    IF v.vehicle_id \in DOMAIN tbl
    THEN [tbl EXCEPT ![v.vehicle_id] =
            [@ EXCEPT !.current_speed = v.current_speed,
                      !.position_x = @ + v.position_x,
                      !.position_y = @ + v.position_y]]
    ELSE tbl @@ (v.vehicle_id :> v)

\* insert_vehicle: INSERT ... ON CONFLICT (vehicle_id) DO UPDATE SET
\* current_speed, position_x, position_y, timestamp
InsertVehicle(tbl, v) ==
    IF v.vehicle_id \in DOMAIN tbl
    THEN [tbl EXCEPT ![v.vehicle_id] =
            [@ EXCEPT !.current_speed = v.current_speed,
                      !.position_x = v.position_x,
                      !.position_y = v.position_y]]
    ELSE tbl @@ (v.vehicle_id :> v)

\* one INSERT INTO routes ... ON CONFLICT (route_id) DO NOTHING
InsertRoute(tbl, route) ==
    IF route.route_id \in DOMAIN tbl THEN tbl ELSE tbl @@ (route.route_id :> route)

\* insert_routes: the loop over the list, committed at its end
RECURSIVE InsertRoutes(_, _)
InsertRoutes(tbl, rs) ==
    IF rs = <<>> THEN tbl
    ELSE InsertRoutes(InsertRoute(tbl, Head(rs)), Tail(rs))

-----------------------------------------------------------------------------
(* The draws *)

\* random.randint(1000, 9999) for a vehicle of the route: the numbers matter
\* only through the identifiers they make, so one number stands for each
\* kind: the least one that is active, the least inactive one the sink has
\* a row for, and the least one never used
RandIntDraws(d, tbl, route_id, max_n) ==
    LET active == {k[2] : k \in {k \in Keys(d) : k[1] = route_id}}
        stored == {k[2] : k \in {k \in DOMAIN tbl : k[1] = route_id}} \ active
        seen   == active \cup stored
        fresh  == {n \in 1000..Min(max_n, 1000 + Cardinality(seen)) : n \notin seen}
    IN  (IF active = {} THEN {} ELSE {SetMin(active)})
        \cup (IF stored = {} THEN {} ELSE {SetMin(stored)})
        \cup (IF fresh = {} THEN {} ELSE {SetMin(fresh)})

-----------------------------------------------------------------------------
(* The threads *)

\* what a worker's current (or last) _simulation_step has done so far:
\*   start_ids    the keys of active_vehicles when the step was entered
\*   updated      the vehicles _update_vehicle_position was called on
\*   persisted    the vehicles insert_vehicle and insert_traffic_data have
\*                both returned for
\*   failed       whether the except clause was reached
\*   prev_failed  whether this worker's previous step reached it
\*   error        the exception it caught there, "none" if none
\*   log          the calls made after the update loop, in order: "spawn" for
\*                _spawn_new_vehicles, "despawn" for _remove_vehicles and
\*                "congestion" for _simulate_congestion
\*   scanned, us  the vehicles the scan of _remove_vehicles has come to, as
\*                it saw them, and the random.random() draw of each
\*   spawn_rate   self.vehicle_spawn_rate as the spawn condition last read it
\*   now          the time of day datetime.now() gave _simulate_congestion
\*   congestion_factor  the congestion_factor it chose, in tenths
\*   congest_us   the vehicles its loop has come to, with the
\*                random.random() draw of each
\* (-1 where there is none yet)
NoTick == [start_ids |-> {}, updated |-> {}, persisted |-> {},
           failed |-> FALSE, prev_failed |-> FALSE, error |-> "none", log |-> <<>>,
           scanned |-> <<>>, us |-> <<>>,
           spawn_rate |-> -1, now |-> -1, congestion_factor |-> -1,
           congest_us |-> <<>>]

\* the calls one tick makes after its update loop, in order
PhaseOrder == <<"spawn", "despawn", "congestion">>

\* no Vehicle object
Nobody == [vehicle_id |-> NoKey, vehicle_type |-> None, current_speed |-> 0,
           max_speed |-> 0, route_id |-> None, position_x |-> 0, position_y |-> 0]

\* the loop variable `vehicle` of _simulation_step outside a turn of the loop
NoVehicle == [vehicle_id |-> NoKey, attached |-> FALSE, vehicle |-> Nobody]

\* a thread that has not been created.  Its locals: `it` is the iterator of
\* the loop over the dict it is in; `cur` the object the loop variable
\* `vehicle` of that loop is bound to, which is the value the dict holds
\* under cur.vehicle_id as long as cur.attached, and else an object that is
\* no longer in the dict, in the state cur.vehicle; `speed` the value
\* max() has returned and that is about to be assigned to current_speed
\* (-1 if there is none); `row` the attributes insert_vehicle has read for
\* its statement; `ri` the position in self.routes of the route of the spawn
\* loop's turn; `vehicle_id` the identifier that turn has drawn and found
\* not to be active
Unborn == [pc |-> "unborn", it |-> NoIter, cur |-> NoVehicle, speed |-> -1,
           row |-> Nobody, ri |-> 0,
           vehicles_on_route |-> 0, vehicle_id |-> NoKey, to_remove |-> <<>>,
           tick |-> NoTick]

IdleCaller == [pc |-> "idle", ret |-> "none", target |-> 0, running_at_return |-> FALSE]

\* the order of the keys of 'vehicle_types' in get_simulation_status
VehicleTypeOrder == <<"car", "truck", "bus", "motorcycle">>

\* the thread of get_simulation_status outside a call: ret is how its last
\* call ended ("none" before the first), running, active_vehicles, routes and
\* vehicle_types what that call has computed
IdleStatus == [pc |-> "idle", ret |-> "none", running |-> FALSE, active_vehicles |-> 0,
               routes |-> 0, vehicle_types |-> [t \in VehicleTypes |-> 0],
               vi |-> 0, it |-> NoIter]

\* no call of the analytics engine or of the sink is in progress
NoCall == [op |-> "none"]

-----------------------------------------------------------------------------
(* simulation.py: simulation_loop and _simulation_step, one worker thread w *)

\* A thread gives way to another only where the interpreter allows it: when
\* a call has returned, when a function is entered and at the jump back to
\* the top of a loop.  A step of a worker below is what it does to the
\* engine's attributes, to the dict and to the Vehicle objects between two
\* such places; what it computes on its locals in between is part of the
\* step that uses it.

\* _simulation_step has returned: its locals are gone
Returned(wr) ==
    [wr EXCEPT !.it = NoIter, !.cur = NoVehicle, !.speed = -1, !.row = Nobody,
               !.ri = 0, !.vehicles_on_route = 0, !.vehicle_id = NoKey,
               !.to_remove = <<>>]

\* faulty variant of AfterException: the exception ends the thread
AfterExceptionFatal(wr) == [Returned(wr) EXCEPT !.pc = "exited", !.tick.failed = TRUE]

\* except Exception in _simulation_step: the error is logged and the call
\* returns, so the loop goes on to time.sleep
AfterException(wr) == [Returned(wr) EXCEPT !.pc = "sleep", !.tick.failed = TRUE]

\* the worker record after `error` was raised inside the try block
Raise(wr, error) == [AfterException(wr) EXCEPT !.tick.error = error]

\* the iterator a for loop over the dict asks for its next element: the loop
\* makes the iterator and asks it for the first element without giving way
\* in between, so the first turn of the loop finds none and makes it
LoopIter(it, d) == IF it = NoIter THEN DictIter(d) ELSE it

\* the Vehicle object the loop variable `cur` is bound to, as it is now
Held(cur, d) ==
    IF cur.attached THEN d[IndexOf(d, cur.vehicle_id)] ELSE cur.vehicle

\* the dict after that object has become v
HeldInDict(cur, d, v) ==
    IF cur.attached THEN [d EXCEPT ![IndexOf(d, cur.vehicle_id)] = v] ELSE d

\* and the loop variable
HeldByLoop(cur, v) == IF cur.attached THEN cur ELSE [cur EXCEPT !.vehicle = v]

\* the loop variable bound to the value the dict holds under vehicle_id
Bound(vehicle_id) == [vehicle_id |-> vehicle_id, attached |-> TRUE, vehicle |-> Nobody]

\* the record of another thread after the value d holds under vehicle_id
\* was deleted or replaced: the object its loop variable is bound to is no
\* longer in the dict
Detached(wr, d, vehicle_id) ==
    IF wr.cur.attached /\ wr.cur.vehicle_id = vehicle_id
    THEN [wr EXCEPT !.cur.attached = FALSE, !.cur.vehicle = d[IndexOf(d, vehicle_id)]]
    ELSE wr

\* while self.simulation_running: the flag is read; if it is set
\* _simulation_step is called
WorkerCheck(w) ==
    /\ worker[w].pc = "check"
    /\ IF simulation_running
       THEN /\ ticks < env.max_ticks
            /\ ticks' = ticks + 1
            /\ worker' = [worker EXCEPT ![w] =
                    [Unborn EXCEPT
                        !.pc = "update",
                        !.tick = [NoTick EXCEPT
                                     !.start_ids = Keys(active_vehicles),
                                     !.prev_failed = worker[w].tick.failed]]]
       ELSE /\ ticks' = ticks
            /\ worker' = [worker EXCEPT ![w].pc = "exited"]
    /\ UNCHANGED <<db_routes, analytics, routes, active_vehicles, ma_keys, simulation_running,
                   simulation_thread, vehicle_spawn_rate, caller, status, db_vehicles, env>>

\* faulty variant of AfterUpdateLoop: _spawn_new_vehicles is not called
AfterUpdateLoopNoSpawn == "remove"

\* the pc after the update loop: _spawn_new_vehicles is called, whose loop
\* has no turn if there is no route
AfterUpdateLoop == IF Len(routes) = 0 THEN "remove" ELSE "spawn"

\* for vehicle in self.active_vehicles.values():  the loop asks the iterator
\* for its next element.  The iterator raises RuntimeError if the dict has
\* changed under it; at its end the loop is left and _spawn_new_vehicles
\* called; otherwise _update_vehicle_position is called on the vehicle
WorkerUpdate(w) ==
    LET wr == worker[w]
        next == DictIterNext(LoopIter(wr.it, active_vehicles), active_vehicles, ma_keys)
    IN
    /\ wr.pc = "update"
    /\ worker' = [worker EXCEPT ![w] =
            IF next.kind \in IterationErrors
            THEN Raise(wr, next.kind)
            ELSE IF next.kind = "StopIteration"
            THEN [wr EXCEPT !.pc = AfterUpdateLoop, !.ri = 1, !.it = NoIter,
                            !.tick.log = Append(@, "spawn")]
            ELSE [wr EXCEPT !.pc = "move", !.it = next.it, !.cur = Bound(next.key),
                            !.tick.updated = @ \cup {next.key}]]
    /\ UNCHANGED <<db_routes, analytics, routes, active_vehicles, ma_keys, simulation_running,
                   simulation_thread, vehicle_spawn_rate, caller, status, db_vehicles,
                   ticks, env>>

\* _update_vehicle_position up to the call of random.uniform: the route is
\* looked up; without one the vehicle is returned as it is; otherwise
\* current_speed is read and the position advanced by it
WorkerMove(w) ==
    LET wr == worker[w]
        vehicle == Held(wr.cur, active_vehicles)
        moved == MoveVehicle(routes, vehicle)
    IN
    /\ wr.pc = "move"
    /\ active_vehicles' = HeldInDict(wr.cur, active_vehicles, moved)
    /\ worker' = [worker EXCEPT ![w] =
            [wr EXCEPT !.cur = HeldByLoop(wr.cur, moved),
                       !.pc = IF GetRouteById(routes, vehicle.route_id) = NoRoute
                              THEN "insert_vehicle" ELSE "vary"]]
    /\ UNCHANGED <<db_routes, analytics, routes, ma_keys, simulation_running, simulation_thread,
                   vehicle_spawn_rate, caller, status, db_vehicles, ticks, env>>

\* random.uniform has returned the speed variation: current_speed is read
\* again and max(0, min(max_speed, current_speed + speed_variation)) computed
WorkerVary(w) ==
    LET wr == worker[w]
        vehicle == Held(wr.cur, active_vehicles)
    IN
    /\ wr.pc = "vary"
    /\ \E f \in env.var_fracs :
          worker' = [worker EXCEPT ![w] =
              [wr EXCEPT !.pc = "store_speed", !.speed = VariedSpeed(vehicle, f)]]
    /\ UNCHANGED <<db_routes, analytics, routes, active_vehicles, ma_keys, simulation_running,
                   simulation_thread, vehicle_spawn_rate, caller, status, db_vehicles,
                   ticks, env>>

\* max() has returned: its value is assigned to vehicle.current_speed, and
\* _update_vehicle_position returns
WorkerStoreSpeed(w) ==
    LET wr == worker[w]
        vehicle == [Held(wr.cur, active_vehicles) EXCEPT !.current_speed = wr.speed]
    IN
    /\ wr.pc = "store_speed"
    /\ active_vehicles' = HeldInDict(wr.cur, active_vehicles, vehicle)
    /\ worker' = [worker EXCEPT ![w] =
            [wr EXCEPT !.cur = HeldByLoop(wr.cur, vehicle), !.speed = -1,
                       !.pc = "insert_vehicle"]]
    /\ UNCHANGED <<db_routes, analytics, routes, ma_keys, simulation_running, simulation_thread,
                   vehicle_spawn_rate, caller, status, db_vehicles, ticks, env>>

\* self.db_manager.insert_vehicle(updated_vehicle) up to cursor.execute: the
\* connection is made, or that raises, which leaves the try block; the
\* attributes of the vehicle are read for the parameters of the statement
WorkerInsertVehicle(w) ==
    LET wr == worker[w]
    IN
    /\ wr.pc = "insert_vehicle"
    /\ \E outcome \in env.sink \ {"insert_traffic_data raises"} :
          worker' = [worker EXCEPT ![w] =
              IF outcome = "ok"
              THEN [wr EXCEPT !.pc = "commit_vehicle",
                              !.row = Held(wr.cur, active_vehicles)]
              ELSE Raise(wr, "insert_vehicle")]
    /\ UNCHANGED <<db_routes, analytics, routes, active_vehicles, ma_keys, simulation_running,
                   simulation_thread, vehicle_spawn_rate, caller, status, db_vehicles,
                   ticks, env>>

\* cursor.execute and conn.commit of insert_vehicle return, the row being
\* written with the values read before, or one of them raises
WorkerCommitVehicle(w) ==
    LET wr == worker[w]
    IN
    /\ wr.pc = "commit_vehicle"
    /\ \E outcome \in env.sink \ {"insert_traffic_data raises"} :
          IF outcome = "ok"
          THEN /\ db_vehicles' = InsertVehicle(db_vehicles, wr.row)
               /\ worker' = [worker EXCEPT ![w] =
                       [wr EXCEPT !.pc = "insert_traffic_data", !.row = Nobody]]
          ELSE /\ db_vehicles' = db_vehicles
               /\ worker' = [worker EXCEPT ![w] = Raise(wr, "insert_vehicle")]
    /\ UNCHANGED <<db_routes, analytics, routes, active_vehicles, ma_keys, simulation_running,
                   simulation_thread, vehicle_spawn_rate, caller, status, ticks, env>>

\* self.db_manager.insert_traffic_data(updated_vehicle) returns, which ends
\* the turn, or raises
WorkerInsertTrafficData(w) ==
    LET wr == worker[w]
    IN
    /\ wr.pc = "insert_traffic_data"
    /\ \E outcome \in env.sink \ {"insert_vehicle raises"} :
          worker' = [worker EXCEPT ![w] =
              IF outcome = "ok"
              THEN [wr EXCEPT !.pc = "update", !.cur = NoVehicle,
                              !.tick.persisted = @ \cup {wr.cur.vehicle_id}]
              ELSE Raise(wr, "insert_traffic_data")]
    /\ UNCHANGED <<db_routes, analytics, routes, active_vehicles, ma_keys, simulation_running,
                   simulation_thread, vehicle_spawn_rate, caller, status, db_vehicles,
                   ticks, env>>

\* the worker record when the spawn loop goes on to its next route, or ends
\* and _remove_vehicles is called
NextRoute(wr) ==
    [wr EXCEPT !.ri = @ + 1, !.it = NoIter, !.vehicles_on_route = 0,
               !.vehicle_id = NoKey,
               !.pc = IF wr.ri >= Len(routes) THEN "remove" ELSE "spawn"]

\* a turn of  for route in self.routes:  in _spawn_new_vehicles begins: the
\* generator of the count is made, and with it the iterator over
\* active_vehicles.values()
WorkerSpawn(w) ==
    /\ worker[w].pc = "spawn"
    /\ worker' = [worker EXCEPT ![w].pc = "count",
                                ![w].it = DictIter(active_vehicles),
                                ![w].vehicles_on_route = 0]
    /\ UNCHANGED <<db_routes, analytics, routes, active_vehicles, ma_keys, simulation_running,
                   simulation_thread, vehicle_spawn_rate, caller, status, db_vehicles,
                   ticks, env>>

\* sum() asks the generator for its next element: the iterator raises
\* RuntimeError if the dict has changed under it; a vehicle of the route
\* counts 1; at the end of the dict sum() returns and the count is compared
\* with max_vehicles_per_route: at the limit the turn ends, random.random()
\* not being called
WorkerCount(w) ==
    LET wr == worker[w]
        route == routes[wr.ri]
        next == DictIterNext(wr.it, active_vehicles, ma_keys)
    IN
    /\ wr.pc = "count"
    /\ worker' = [worker EXCEPT ![w] =
            IF next.kind \in IterationErrors
            THEN Raise(wr, next.kind)
            ELSE IF next.kind = "value"
            THEN LET v == active_vehicles[IndexOf(active_vehicles, next.key)]
                 IN  [wr EXCEPT !.it = next.it,
                                !.vehicles_on_route =
                                    IF v.route_id = route.route_id THEN @ + 1 ELSE @]
            ELSE IF wr.vehicles_on_route < max_vehicles_per_route
            THEN [wr EXCEPT !.pc = "condition", !.it = NoIter]
            ELSE NextRoute(wr)]
    /\ UNCHANGED <<db_routes, analytics, routes, active_vehicles, ma_keys, simulation_running,
                   simulation_thread, vehicle_spawn_rate, caller, status, db_vehicles,
                   ticks, env>>

\* random.random() has returned: self.vehicle_spawn_rate is read and the
\* draw compared with it
WorkerCondition(w) ==
    LET wr == worker[w]
        read == [wr EXCEPT !.tick.spawn_rate = vehicle_spawn_rate]
    IN
    /\ wr.pc = "condition"
    /\ \E u \in env.spawn_u[wr.ri] :
          worker' = [worker EXCEPT ![w] =
              IF SpawnAllowed(wr.vehicles_on_route, u, vehicle_spawn_rate)
              THEN [read EXCEPT !.pc = "draw"]
              ELSE NextRoute(read)]
    /\ UNCHANGED <<db_routes, analytics, routes, active_vehicles, ma_keys, simulation_running,
                   simulation_thread, vehicle_spawn_rate, caller, status, db_vehicles,
                   ticks, env>>

\* random.randint has returned: the identifier is made and looked up in the
\* dict; if it is active the turn ends
WorkerDraw(w) ==
    LET wr == worker[w]
        route == routes[wr.ri]
    IN
    /\ wr.pc = "draw"
    /\ \E n \in RandIntDraws(active_vehicles, db_vehicles, route.route_id, env.max_n) :
          worker' = [worker EXCEPT ![w] =
              IF <<route.route_id, n>> \notin Keys(active_vehicles)
              THEN [wr EXCEPT !.pc = "insert", !.vehicle_id = <<route.route_id, n>>]
              ELSE NextRoute(wr)]
    /\ UNCHANGED <<db_routes, analytics, routes, active_vehicles, ma_keys, simulation_running,
                   simulation_thread, vehicle_spawn_rate, caller, status, db_vehicles,
                   ticks, env>>

\* the vehicle is generated, put at the start of the route and stored in
\* the dict under the identifier drawn.  The lookup is not repeated: if
\* another thread has stored a vehicle under that identifier since, the
\* assignment replaces it
WorkerInsert(w) ==
    LET wr == worker[w]
        route == routes[wr.ri]
    IN
    /\ wr.pc = "insert"
    /\ \E td \in env.types, frac \in env.init_fracs :
          active_vehicles' =
              DictSet(active_vehicles, NewVehicle(route, wr.vehicle_id, td, frac))
    /\ ma_keys' = KeysSet(ma_keys, active_vehicles, wr.vehicle_id)
    /\ worker' = [v \in WorkerIds |->
            IF v = w THEN NextRoute(wr)
            ELSE IF wr.vehicle_id \in Keys(active_vehicles)
            THEN Detached(worker[v], active_vehicles, wr.vehicle_id)
            ELSE worker[v]]
    /\ UNCHANGED <<db_routes, analytics, routes, simulation_running, simulation_thread,
                   vehicle_spawn_rate, caller, status, db_vehicles, ticks, env>>

\* _remove_vehicles is entered: vehicles_to_remove is empty
WorkerRemove(w) ==
    /\ worker[w].pc = "remove"
    /\ worker' = [worker EXCEPT ![w].pc = "scan",
                                ![w].it = NoIter,
                                ![w].to_remove = <<>>,
                                ![w].tick.log = Append(@, "despawn")]
    /\ UNCHANGED <<db_routes, analytics, routes, active_vehicles, ma_keys, simulation_running,
                   simulation_thread, vehicle_spawn_rate, caller, status, db_vehicles,
                   ticks, env>>

\* for vehicle_id, vehicle in self.active_vehicles.items():  the loop asks
\* the iterator for its next element.  The iterator raises RuntimeError if
\* the dict has changed under it; at the end of the dict the loop of the
\* deletions follows; otherwise _get_route_by_id is called
WorkerScan(w) ==
    LET wr == worker[w]
        next == DictIterNext(LoopIter(wr.it, active_vehicles), active_vehicles, ma_keys)
    IN
    /\ wr.pc = "scan"
    /\ worker' = [worker EXCEPT ![w] =
            IF next.kind \in IterationErrors
            THEN Raise(wr, next.kind)
            ELSE IF next.kind = "StopIteration"
            THEN [wr EXCEPT !.it = NoIter,
                            !.pc = IF wr.to_remove = <<>>
                                   THEN "simulate_congestion" ELSE "delete"]
            ELSE [wr EXCEPT !.pc = "look", !.it = next.it, !.cur = Bound(next.key)]]
    /\ UNCHANGED <<db_routes, analytics, routes, active_vehicles, ma_keys, simulation_running,
                   simulation_thread, vehicle_spawn_rate, caller, status, db_vehicles,
                   ticks, env>>

\* whether the scan calls random.random() for v: not without a route, and
\* not below the distance
DespawnDrawMade(rs, v) ==
    LET route == GetRouteById(rs, v.route_id)
    IN  route # NoRoute /\ ~NearRouteEnd(v, route)

\* _get_route_by_id has returned: the position of the vehicle is read, and
\* the vehicle is put on vehicles_to_remove if it is to be removed
WorkerLook(w) ==
    LET wr == worker[w]
        vehicle == Held(wr.cur, active_vehicles)
    IN
    /\ wr.pc = "look"
    /\ \E u \in env.despawn_u :
          worker' = [worker EXCEPT ![w] =
              [wr EXCEPT !.pc = "scan", !.cur = NoVehicle,
                         !.to_remove = IF ShouldRemove(routes, vehicle, u)
                                       THEN Append(@, vehicle.vehicle_id) ELSE @,
                         !.tick.scanned = Append(@, vehicle),
                         !.tick.us = Append(@, IF DespawnDrawMade(routes, vehicle)
                                               THEN u ELSE -1)]]
    /\ UNCHANGED <<db_routes, analytics, routes, active_vehicles, ma_keys, simulation_running,
                   simulation_thread, vehicle_spawn_rate, caller, status, db_vehicles,
                   ticks, env>>

\* one turn of  for vehicle_id in vehicles_to_remove: del ...  (KeyError if
\* the key has gone)
WorkerDelete(w) ==
    LET wr == worker[w]
        vehicle_id == Head(wr.to_remove)
    IN
    /\ wr.pc = "delete"
    /\ IF vehicle_id \in Keys(active_vehicles)
       THEN /\ active_vehicles' = DictDel(active_vehicles, vehicle_id)
            /\ ma_keys' = KeysDelete(ma_keys, vehicle_id)
            /\ worker' = [x \in WorkerIds |->
                    IF x = w
                    THEN [wr EXCEPT !.to_remove = Tail(@),
                                    !.pc = IF Tail(wr.to_remove) = <<>>
                                           THEN "simulate_congestion" ELSE "delete"]
                    ELSE Detached(worker[x], active_vehicles, vehicle_id)]
       ELSE /\ active_vehicles' = active_vehicles
            /\ ma_keys' = ma_keys
            /\ worker' = [worker EXCEPT ![w] = Raise(wr, "KeyError")]
    /\ UNCHANGED <<db_routes, analytics, routes, simulation_running, simulation_thread,
                   vehicle_spawn_rate, caller, status, db_vehicles, ticks, env>>

\* _simulate_congestion up to its loop: the clock is read and the spawn
\* rate written
WorkerRate(w) ==
    /\ worker[w].pc = "simulate_congestion"
    /\ \E now \in env.times :
          LET current_hour == Hour(now)
          IN  /\ vehicle_spawn_rate' = SpawnRateFor(current_hour)
              /\ worker' = [worker EXCEPT ![w] =
                      [worker[w] EXCEPT
                          !.pc = "congest",
                          !.it = NoIter,
                          !.tick.log = Append(@, "congestion"),
                          !.tick.now = now,
                          !.tick.congestion_factor = CongestionFactor(current_hour)]]
    /\ UNCHANGED <<db_routes, analytics, routes, active_vehicles, ma_keys, simulation_running,
                   simulation_thread, caller, status, db_vehicles, ticks, env>>

\* for vehicle in self.active_vehicles.values():  in _simulate_congestion:
\* the loop asks the iterator for its next element and random.random() is
\* called.  The iterator raises RuntimeError if the dict has changed under
\* it; at the end of the dict _simulate_congestion returns and
\* _simulation_step logs "Simulation step completed" and returns; a vehicle
\* whose draw is not below 0.3 is left as it is
WorkerCongest(w) ==
    LET wr == worker[w]
        next == DictIterNext(LoopIter(wr.it, active_vehicles), active_vehicles, ma_keys)
    IN
    /\ wr.pc = "congest"
    /\ IF next.kind \in IterationErrors
       THEN worker' = [worker EXCEPT ![w] = Raise(wr, next.kind)]
       ELSE IF next.kind = "StopIteration"
       THEN worker' = [worker EXCEPT ![w] = [Returned(wr) EXCEPT !.pc = "sleep"]]
       ELSE \E u \in env.congest_u :
            worker' = [worker EXCEPT ![w] =
                [wr EXCEPT !.it = next.it,
                           !.pc = IF u < CongestionChance THEN "slow" ELSE "congest",
                           !.cur = IF u < CongestionChance
                                   THEN Bound(next.key) ELSE NoVehicle,
                           !.tick.congest_us =
                               Append(@, [vehicle_id |-> next.key, u |-> u])]]
    /\ UNCHANGED <<db_routes, analytics, routes, active_vehicles, ma_keys, simulation_running,
                   simulation_thread, vehicle_spawn_rate, caller, status, db_vehicles,
                   ticks, env>>

\* random.random() has returned a draw below 0.3: current_speed is
\* multiplied by congestion_factor, read again, and max(5, current_speed)
\* computed
WorkerSlow(w) ==
    LET wr == worker[w]
        vehicle == Held(wr.cur, active_vehicles)
        slowed == [vehicle EXCEPT
                     !.current_speed = SlowedSpeed(@, wr.tick.congestion_factor)]
    IN
    /\ wr.pc = "slow"
    /\ active_vehicles' = HeldInDict(wr.cur, active_vehicles, slowed)
    /\ worker' = [worker EXCEPT ![w] =
            [wr EXCEPT !.cur = HeldByLoop(wr.cur, slowed),
                       !.speed = FlooredSpeed(slowed.current_speed),
                       !.pc = "floor"]]
    /\ UNCHANGED <<db_routes, analytics, routes, ma_keys, simulation_running, simulation_thread,
                   vehicle_spawn_rate, caller, status, db_vehicles, ticks, env>>

\* max() has returned: its value is assigned to vehicle.current_speed, which
\* ends the turn
WorkerFloor(w) ==
    LET wr == worker[w]
        vehicle == [Held(wr.cur, active_vehicles) EXCEPT !.current_speed = wr.speed]
    IN
    /\ wr.pc = "floor"
    /\ active_vehicles' = HeldInDict(wr.cur, active_vehicles, vehicle)
    /\ worker' = [worker EXCEPT ![w] =
            [wr EXCEPT !.cur = NoVehicle, !.speed = -1, !.pc = "congest"]]
    /\ UNCHANGED <<db_routes, analytics, routes, ma_keys, simulation_running, simulation_thread,
                   vehicle_spawn_rate, caller, status, db_vehicles, ticks, env>>

\* time.sleep(step_interval) returns
WorkerSleep(w) ==
    /\ worker[w].pc = "sleep"
    /\ worker' = [worker EXCEPT ![w].pc = "check"]
    /\ UNCHANGED <<db_routes, analytics, routes, active_vehicles, ma_keys, simulation_running,
                   simulation_thread, vehicle_spawn_rate, caller, status, db_vehicles,
                   ticks, env>>

-----------------------------------------------------------------------------
(* simulation.py: start_simulation and stop_simulation, called by thread c *)

UnbornWorkers == {w \in WorkerIds : worker[w].pc = "unborn"}

StartsInFlight == {c \in Callers : caller[c].pc \in {"start_set", "start_new"}}

\* faulty variant of AlreadyRunning: the flag is not tested
AlreadyRunningIgnored == FALSE

\* if self.simulation_running:  at the top of start_simulation
AlreadyRunning == simulation_running

\* start_simulation is entered and tests the flag: if it is set, the call
\* logs a warning and returns
StartCheck(c) ==
    /\ caller[c].pc = "idle"
    /\ IF AlreadyRunning
       THEN caller' = [caller EXCEPT ![c] = [IdleCaller EXCEPT !.ret = "already running"]]
       ELSE /\ Cardinality(UnbornWorkers) > Cardinality(StartsInFlight)
            /\ caller' = [caller EXCEPT ![c] = [IdleCaller EXCEPT !.pc = "start_set"]]
    /\ UNCHANGED <<ma_keys, db_routes, analytics, routes, active_vehicles, simulation_running, simulation_thread,
                   vehicle_spawn_rate, worker, status, db_vehicles,
                   ticks, env>>

\* self.simulation_running = True
StartSet(c) ==
    /\ caller[c].pc = "start_set"
    /\ simulation_running' = TRUE
    /\ caller' = [caller EXCEPT ![c].pc = "start_new"]
    /\ UNCHANGED <<ma_keys, db_routes, analytics, routes, active_vehicles, simulation_thread, vehicle_spawn_rate,
                   worker, status, db_vehicles, ticks, env>>

\* self.simulation_thread = threading.Thread(target=simulation_loop, daemon=True)
StartNew(c) ==
    /\ caller[c].pc = "start_new"
    /\ UnbornWorkers # {}
    /\ LET w == SetMin(UnbornWorkers)
       IN  /\ worker' = [worker EXCEPT ![w].pc = "created"]
           /\ simulation_thread' = w
           /\ caller' = [caller EXCEPT ![c].pc = "start_go", ![c].target = w]
    /\ UNCHANGED <<ma_keys, db_routes, analytics, routes, active_vehicles, simulation_running, vehicle_spawn_rate,
                   status, db_vehicles, ticks, env>>

\* self.simulation_thread.start(): the attribute is read again, so the thread
\* started is the one last assigned; starting a thread twice raises RuntimeError
StartGo(c) ==
    /\ caller[c].pc = "start_go"
    /\ IF worker[simulation_thread].pc = "created"
       THEN /\ worker' = [worker EXCEPT ![simulation_thread].pc = "check"]
            /\ caller' = [caller EXCEPT ![c] = IdleCaller]
       ELSE /\ worker' = worker
            /\ caller' = [caller EXCEPT ![c] = IdleCaller]
    /\ UNCHANGED <<ma_keys, db_routes, analytics, routes, active_vehicles, simulation_running, simulation_thread,
                   vehicle_spawn_rate, status, db_vehicles, ticks, env>>

\* stop_simulation is entered: if the flag is set it is cleared, otherwise
\* the call returns
StopCheck(c) ==
    /\ caller[c].pc = "idle"
    /\ IF simulation_running
       THEN /\ simulation_running' = FALSE
            /\ caller' = [caller EXCEPT ![c] = [IdleCaller EXCEPT !.pc = "stop_read"]]
       ELSE /\ simulation_running' = simulation_running
            /\ caller' = [caller EXCEPT ![c] = [IdleCaller EXCEPT !.ret = "not running"]]
    /\ UNCHANGED <<ma_keys, db_routes, analytics, routes, active_vehicles, simulation_thread, vehicle_spawn_rate,
                   worker, status, db_vehicles, ticks, env>>

\* if self.simulation_thread: self.simulation_thread.join(timeout=10) is
\* entered; joining a thread that was not started raises RuntimeError
StopRead(c) ==
    /\ caller[c].pc = "stop_read"
    /\ caller' = [caller EXCEPT ![c] =
          IF simulation_thread = 0
          THEN [IdleCaller EXCEPT !.ret = "stopped",
                                  !.running_at_return = simulation_running]
          ELSE IF worker[simulation_thread].pc = "created"
          THEN IdleCaller
          ELSE [IdleCaller EXCEPT !.pc = "stop_wait", !.target = simulation_thread]]
    /\ UNCHANGED <<ma_keys, db_routes, analytics, routes, active_vehicles, simulation_running, simulation_thread,
                   vehicle_spawn_rate, worker, status, db_vehicles,
                   ticks, env>>

\* join(timeout=10) returns: the worker has exited, or the 10 s have passed
StopWait(c) ==
    /\ caller[c].pc = "stop_wait"
    /\ \E timed_out \in BOOLEAN :
          /\ timed_out \/ worker[caller[c].target].pc = "exited"
          /\ caller' = [caller EXCEPT ![c] =
                [IdleCaller EXCEPT
                    !.ret = "stopped",
                    !.running_at_return = simulation_running]]
    /\ UNCHANGED <<ma_keys, db_routes, analytics, routes, active_vehicles, simulation_running, simulation_thread,
                   vehicle_spawn_rate, worker, status, db_vehicles,
                   ticks, env>>

-----------------------------------------------------------------------------
(* simulation.py: get_simulation_status, called by the status thread *)

\* 'running', 'active_vehicles' (len) and 'routes' (len) are evaluated
StatusBegin ==
    /\ status.pc = "idle"
    /\ status' = [IdleStatus EXCEPT !.pc = "types",
                                    !.running = simulation_running,
                                    !.active_vehicles = Len(active_vehicles),
                                    !.routes = Len(routes),
                                    !.vi = 1]
    /\ UNCHANGED <<ma_keys, db_routes, analytics, routes, active_vehicles, simulation_running,
                   simulation_thread, vehicle_spawn_rate, worker, caller, db_vehicles,
                   ticks, env>>

\* the count of the next vehicle type begins: its generator is made, and
\* with it the iterator over active_vehicles.values()
StatusType ==
    /\ status.pc = "types"
    /\ status' = [status EXCEPT !.pc = "count", !.it = DictIter(active_vehicles)]
    /\ UNCHANGED <<ma_keys, db_routes, analytics, routes, active_vehicles, simulation_running,
                   simulation_thread, vehicle_spawn_rate, worker, caller, db_vehicles,
                   ticks, env>>

\* sum() asks the generator for its next element: the iterator raises
\* RuntimeError if the dict has changed under it, and get_simulation_status
\* raises it to its caller; a vehicle of the type counts 1; at the end of
\* the dict the next type follows, and after the last the dict is returned
StatusCount ==
    LET next == DictIterNext(status.it, active_vehicles, ma_keys)
        vtype == VehicleTypeOrder[status.vi]
    IN
    /\ status.pc = "count"
    /\ status' =
          IF next.kind \in IterationErrors
          THEN [IdleStatus EXCEPT !.ret = next.kind]
          ELSE IF next.kind = "value"
          THEN LET v == active_vehicles[IndexOf(active_vehicles, next.key)]
               IN  [status EXCEPT
                       !.it = next.it,
                       !.vehicle_types[vtype] = IF v.vehicle_type = vtype THEN @ + 1 ELSE @]
          ELSE IF status.vi < Len(VehicleTypeOrder)
          THEN [status EXCEPT !.pc = "types", !.vi = @ + 1, !.it = NoIter]
          ELSE [status EXCEPT !.pc = "idle", !.ret = "returned", !.vi = 0, !.it = NoIter]
    /\ UNCHANGED <<ma_keys, db_routes, analytics, routes, active_vehicles, simulation_running,
                   simulation_thread, vehicle_spawn_rate, worker, caller, db_vehicles,
                   ticks, env>>

-----------------------------------------------------------------------------
(* The engine after construction *)

\* the Catalog _initialize_routes draws, cut down to its first MaxRoutes
\* routes: each runs from (0, 0) to (30, 40), so that its start point is at
\* distance 50 from its end point
Catalog == GenerateRoutes(MaxRoutes, RouteDraw(0, 3000, 4000, 3))

\* what random.random() may give the spawn condition of each route, by the
\* position of the route in the Catalog
PerRoute(first, others) == [r \in 1..Len(route_names) |-> IF r = 1 THEN first ELSE others]

\* the outcomes of the draws in SpecTick
TickDraws ==
    [spawn_u    |-> PerRoute({20, 40}, {90}),
     despawn_u  |-> {5, 50},
     congest_u  |-> {20, 50},
     types      |-> {[vehicle_type |-> "bus", max_speed |-> 500]},
     init_fracs |-> {0, 10},
     var_fracs  |-> {-10, 10},
     times      |-> {180, 480},
     sink       |-> {"ok", "insert_vehicle raises", "insert_traffic_data raises"},
     max_n      |-> 1001,
     max_ticks  |-> MaxTicksTick]

\* the outcomes of the draws in Spec
Draws ==
    [spawn_u    |-> PerRoute({20}, {90}),
     despawn_u  |-> {50},
     congest_u  |-> {20},
     types      |-> {[vehicle_type |-> "bus", max_speed |-> 500],
                     [vehicle_type |-> "car", max_speed |-> 1000]},
     init_fracs |-> {10},
     var_fracs  |-> {0},
     times      |-> {180},
     sink       |-> {"ok"},
     max_n      |-> 1000,
     max_ticks  |-> MaxTicks]

\* TrafficSimulation.__init__
Constructed ==
    /\ active_vehicles = <<>>
    /\ ma_keys = EmptyKeys
    /\ simulation_running = FALSE
    /\ simulation_thread = 0
    /\ vehicle_spawn_rate = 30
    /\ worker = [w \in WorkerIds |-> Unborn]
    /\ caller = [c \in Callers |-> IdleCaller]
    /\ status = IdleStatus
    /\ db_vehicles = <<>>
    /\ ticks = 0
    /\ analytics = NoCall

Init ==
    /\ Constructed
    /\ routes = Catalog
    /\ db_routes = InsertRoutes(<<>>, routes)
    /\ env = Draws

WorkerStep(w) ==
    \/ WorkerCheck(w)
    \/ WorkerUpdate(w)
    \/ WorkerMove(w)
    \/ WorkerVary(w)
    \/ WorkerStoreSpeed(w)
    \/ WorkerInsertVehicle(w)
    \/ WorkerCommitVehicle(w)
    \/ WorkerInsertTrafficData(w)
    \/ WorkerSpawn(w)
    \/ WorkerCount(w)
    \/ WorkerCondition(w)
    \/ WorkerDraw(w)
    \/ WorkerInsert(w)
    \/ WorkerRemove(w)
    \/ WorkerScan(w)
    \/ WorkerLook(w)
    \/ WorkerDelete(w)
    \/ WorkerRate(w)
    \/ WorkerCongest(w)
    \/ WorkerSlow(w)
    \/ WorkerFloor(w)
    \/ WorkerSleep(w)

CallerStep(c) ==
    \/ StartCheck(c)
    \/ StartSet(c)
    \/ StartNew(c)
    \/ StartGo(c)
    \/ StopCheck(c)
    \/ StopRead(c)
    \/ StopWait(c)

\* the threads that call start_simulation and stop_simulation, and the
\* workers they start
Next ==
    \/ \E w \in WorkerIds : WorkerStep(w)
    \/ \E c \in Callers : CallerStep(c)

Spec == Init /\ [][Next]_vars

\* the outcomes of the draws in SpecStatus: those of Spec, but every route
\* spawns
StatusDraws ==
    [Draws EXCEPT !.spawn_u = PerRoute({20}, {20}), !.max_ticks = MaxTicksStatus]

InitStatus ==
    /\ Constructed
    /\ routes = Catalog
    /\ db_routes = InsertRoutes(<<>>, routes)
    /\ env = StatusDraws

\* one caller starts the engine once, and a thread calls
\* get_simulation_status while the worker runs its ticks
NextStatus ==
    \/ WorkerStep(1)
    \/ StartCheck("c1")
    \/ StartSet("c1")
    \/ StartNew("c1")
    \/ StartGo("c1")
    \/ StatusBegin
    \/ StatusType
    \/ StatusCount

SpecStatus == InitStatus /\ [][NextStatus]_vars

\* a Catalog whose routes run from (0, 0) to (33, 44): the start point is at
\* distance 55 from the end point, so that a vehicle is updated twice before
\* it comes near the end
CatalogTick == GenerateRoutes(MaxRoutes, RouteDraw(0, 3300, 4400, 3))

\* one caller starts the engine once and the worker runs its ticks, on
\* either Catalog
InitTick ==
    /\ Constructed
    /\ routes \in {Catalog, CatalogTick}
    /\ db_routes = InsertRoutes(<<>>, routes)
    /\ env = TickDraws

NextTick ==
    \/ \E w \in WorkerIds : WorkerStep(w)
    \/ StartCheck("c1")
    \/ StartSet("c1")
    \/ StartNew("c1")
    \/ StartGo("c1")

SpecTick == InitTick /\ [][NextTick]_vars


\* the outcomes of the draws in SpecCap: the first route spawns a vehicle in
\* every tick and no other route does; every vehicle is spawned standing and
\* keeps standing, and none is despawned, so that the route fills up
CapDraws ==
    [spawn_u    |-> PerRoute({20}, {90}),
     despawn_u  |-> {50},
     congest_u  |-> {50},
     types      |-> {[vehicle_type |-> "bus", max_speed |-> 500]},
     init_fracs |-> {0},
     var_fracs  |-> {0},
     times      |-> {180},
     sink       |-> {"ok"},
     max_n      |-> 9999,
     max_ticks  |-> MaxTicksCap]

\* the engine run long enough for a route to fill up
InitCap ==
    /\ Constructed
    /\ routes = Catalog
    /\ db_routes = InsertRoutes(<<>>, routes)
    /\ env = CapDraws

\* no vehicle is ever on vehicles_to_remove here, so WorkerDelete has no
\* step, and no draw of the congestion loop is below 0.3, so WorkerSlow and
\* WorkerFloor have none
CapStep(w) ==
    \/ WorkerCheck(w)
    \/ WorkerUpdate(w)
    \/ WorkerMove(w)
    \/ WorkerVary(w)
    \/ WorkerStoreSpeed(w)
    \/ WorkerInsertVehicle(w)
    \/ WorkerCommitVehicle(w)
    \/ WorkerInsertTrafficData(w)
    \/ WorkerSpawn(w)
    \/ WorkerCount(w)
    \/ WorkerCondition(w)
    \/ WorkerDraw(w)
    \/ WorkerInsert(w)
    \/ WorkerRemove(w)
    \/ WorkerScan(w)
    \/ WorkerLook(w)
    \/ WorkerRate(w)
    \/ WorkerCongest(w)
    \/ WorkerSleep(w)

\* one caller starts the engine once and the worker runs its ticks
NextCap ==
    \/ CapStep(1)
    \/ StartCheck("c1")
    \/ StartSet("c1")
    \/ StartNew("c1")
    \/ StartGo("c1")

SpecCap == InitCap /\ [][NextCap]_vars

\* the times of day datetime.now() gives in SpecClock: around every full and
\* every half hour
ClockTimes == {60 * h + m : h \in 0..23, m \in {0, 1, 30, 59}}

\* the outcomes of the draws in SpecClock: the first route draws 0.2 or 0.4
\* at its spawn condition, and nothing else is left to chance
ClockDraws ==
    [Draws EXCEPT !.spawn_u = PerRoute({20, 40}, {90}),
                  !.types = {[vehicle_type |-> "bus", max_speed |-> 500]},
                  !.max_ticks = MaxTicksClock]

\* the engine started at any of these times of day
InitClock ==
    /\ Constructed
    /\ routes = Catalog
    /\ db_routes = InsertRoutes(<<>>, routes)
    /\ \E now \in ClockTimes : env = [ClockDraws EXCEPT !.times = {now}]

SpecClock == InitClock /\ [][NextTick]_vars

\* the Registry after k ticks of SpecCap: k standing vehicles at the start
\* of the first route
RECURSIVE Filled(_)
Filled(k) ==
    IF k = 0 THEN <<>>
    ELSE SpawnVehicle(Filled(k - 1), Catalog[1], 999 + k,
                      [vehicle_type |-> "bus", max_speed |-> 500], 0)

\* and its key table
RECURSIVE FilledKeys(_)
FilledKeys(k) ==
    IF k = 0 THEN EmptyKeys
    ELSE KeysInsert(FilledKeys(k - 1), k - 1, <<Catalog[1].route_id, 999 + k>>)

\* table vehicles after the first k of them have been written
RECURSIVE Stored(_)
Stored(k) == IF k = 0 THEN <<>> ELSE InsertVehicle(Stored(k - 1), Filled(k)[k])

\* a state of SpecCap: the worker has run max_vehicles_per_route - 1 ticks,
\* each of which spawned a vehicle on the first route, and is about to test
\* the flag again
RaceStart ==
    LET k == max_vehicles_per_route - 1
    IN  /\ routes = Catalog
        /\ db_routes = InsertRoutes(<<>>, routes)
        /\ active_vehicles = Filled(k)
        /\ ma_keys = FilledKeys(k)
        /\ db_vehicles = Stored(k - 1)
        /\ simulation_running = TRUE
        /\ simulation_thread = 1
        /\ vehicle_spawn_rate = 30
        /\ worker = [w \in WorkerIds |->
                IF w = 1
                THEN [Unborn EXCEPT
                        !.pc = "check",
                        !.tick = [start_ids |-> Keys(Filled(k - 1)),
                                  updated |-> Keys(Filled(k - 1)),
                                  persisted |-> Keys(Filled(k - 1)),
                                  failed |-> FALSE, prev_failed |-> FALSE,
                                  error |-> "none",
                                  log |-> PhaseOrder,
                                  scanned |-> Filled(k),
                                  us |-> [i \in 1..k |-> 50],
                                  spawn_rate |-> 30, now |-> 180,
                                  congestion_factor |-> 10,
                                  congest_us |->
                                      [i \in 1..k |->
                                          [vehicle_id |-> Filled(k)[i].vehicle_id,
                                           u |-> 50]]]]
                ELSE Unborn]
        /\ caller = [c \in Callers |-> IdleCaller]
        /\ status = IdleStatus
        /\ ticks = k
        /\ analytics = NoCall

\* the outcomes of the draws in SpecRace: those of SpecCap, for two ticks more
RaceDraws == [CapDraws EXCEPT !.max_ticks = MaxTicksRace]

InitRace == RaceStart /\ env = RaceDraws

\* worker w is in the update loop, in _remove_vehicles after its entry or in
\* _simulate_congestion
InDictLoop(w) ==
    worker[w].pc \in {"update", "move", "vary", "store_speed", "insert_vehicle",
                      "commit_vehicle", "insert_traffic_data", "scan", "look",
                      "delete", "simulate_congestion", "congest", "slow", "floor"}

\* from there, one thread calls stop_simulation and another start_simulation.
\* Of the schedules of the four threads those are kept in which the calls
\* are made before the worker tests the flag again, in which a worker takes
\* no step while a call is in progress, and in which a worker that is in the
\* update loop, in _remove_vehicles or in _simulate_congestion is not
\* interrupted by another worker: the workers take turns only while they are
\* in _spawn_new_vehicles, asleep or at the test of the flag
NextRace ==
    \/ /\ \A c \in Callers : caller[c].pc = "idle"
       /\ \E w \in WorkerIds :
             /\ \A v \in WorkerIds \ {w} : ~InDictLoop(v)
             /\ CapStep(w)
    \/ /\ ticks = max_vehicles_per_route - 1
       /\ \/ StopCheck("c1")
          \/ StopRead("c1")
          \/ StopWait("c1")
          \/ StartCheck("c2")
          \/ StartSet("c2")
          \/ StartNew("c2")
          \/ StartGo("c2")

SpecRace == InitRace /\ [][NextRace]_vars

-----------------------------------------------------------------------------
(* analytics.py: TrafficAnalytics *)

\* self.high_congestion_speed_threshold = 30, in tenths of a km/h
high_congestion_speed_threshold == 300
\* self.medium_congestion_speed_threshold = 50, in tenths of a km/h
medium_congestion_speed_threshold == 500
\* self.min_vehicles_for_congestion = 5
min_vehicles_for_congestion == 5
\* self.congestion_area_radius = 100, in hundredths of a unit
congestion_area_radius == 10000

\* A mean is kept as the exact fraction num / den (den > 0), so that a
\* comparison with a threshold is the comparison the program makes on the
\* quotient.
Fraction(num, den) == [num |-> num, den |-> den]

\* avg <= k
FractionLeq(avg, k) == avg.num <= k * avg.den

\* faulty variant of ClassifyCongestion: the three tests are made
\* independently and the last one that holds wins
ClassifyCongestionUnordered(avg_speed, vehicle_count) ==
    IF vehicle_count >= min_vehicles_for_congestion THEN "low"
    ELSE IF FractionLeq(avg_speed, medium_congestion_speed_threshold) /\ vehicle_count >= 7
    THEN "medium"
    ELSE IF FractionLeq(avg_speed, high_congestion_speed_threshold) /\ vehicle_count >= 10
    THEN "high"
    ELSE "none"

\* _classify_congestion(avg_speed, vehicle_count)
ClassifyCongestion(avg_speed, vehicle_count) ==
    IF FractionLeq(avg_speed, high_congestion_speed_threshold) /\ vehicle_count >= 10
    THEN "high"
    ELSE IF FractionLeq(avg_speed, medium_congestion_speed_threshold) /\ vehicle_count >= 7
    THEN "medium"
    ELSE IF vehicle_count >= min_vehicles_for_congestion
    THEN "low"
    ELSE "none"

\* a call of _classify_congestion is made
ClassifyCall ==
    /\ analytics = NoCall
    /\ \E avg_speed \in env.avg_speeds, vehicle_count \in env.vehicle_counts :
          analytics' = [op |-> "_classify_congestion", pc |-> "called",
                        avg_speed |-> avg_speed, vehicle_count |-> vehicle_count,
                        result |-> None]
    /\ UNCHANGED <<ma_keys, db_routes, routes, active_vehicles, simulation_running, simulation_thread,
                   vehicle_spawn_rate, worker, caller, status, db_vehicles, ticks, env>>

\* and returns
ClassifyReturn ==
    /\ analytics.op = "_classify_congestion"
    /\ analytics.pc = "called"
    /\ analytics' = [analytics EXCEPT
            !.pc = "returned",
            !.result = ClassifyCongestion(analytics.avg_speed, analytics.vehicle_count)]
    /\ UNCHANGED <<ma_keys, db_routes, routes, active_vehicles, simulation_running, simulation_thread,
                   vehicle_spawn_rate, worker, caller, status, db_vehicles, ticks, env>>

\* the arguments in SpecClassify: speeds around the two thresholds, as whole
\* tenths and as thirds of a tenth, and every count up to 12
ClassifyDraws ==
    [avg_speeds     |-> {Fraction(s, 1) : s \in {0, 250, 299, 300, 301, 450, 499, 500, 501, 600}}
                        \cup {Fraction(s, 3) : s \in {899, 901, 1499, 1501}},
     vehicle_counts |-> 0..12]

InitClassify ==
    /\ Constructed
    /\ routes = Catalog
    /\ db_routes = InsertRoutes(<<>>, routes)
    /\ env = ClassifyDraws

NextClassify == ClassifyCall \/ ClassifyReturn

SpecClassify == InitClassify /\ [][NextClassify]_vars

-----------------------------------------------------------------------------
(* analytics.py: detect_congestion_points.  A DataFrame is the sequence of  *)
(* its rows; a row of traffic_data is a record with the fields vehicle_id,  *)
(* route_id, speed, position_x, position_y and timestamp.                   *)

SetMax(S) == CHOOSE x \in S : \A y \in S : x >= y

\* Series.unique(): the values in the order of their first appearance
RECURSIVE Unique(_)
Unique(s) ==
    IF s = <<>> THEN <<>>
    ELSE LET r == Unique(SubSeq(s, 1, Len(s) - 1))
         IN  IF s[Len(s)] \in Range(r) THEN r ELSE Append(r, s[Len(s)])

\* faulty variant of IsEmpty: no DataFrame is taken to be empty
IsEmptyNever(df) == FALSE

\* df.empty
IsEmpty(df) == df = <<>>

\* traffic_data['route_id'].unique()
RouteIds(df) == Unique([i \in 1..Len(df) |-> df[i].route_id])

\* traffic_data[traffic_data['route_id'] == route_id]
RouteData(df, route_id) == SelectSeq(df, LAMBDA r : r.route_id = route_id)

RECURSIVE SumSpeed(_)
SumSpeed(df) == IF df = <<>> THEN 0 ELSE df[1].speed + SumSpeed(Tail(df))

\* df['speed'].mean(), for a DataFrame that has a row
MeanSpeed(df) == Fraction(SumSpeed(df), Len(df))

\* np.arange(start, stop, step) for stop > start and step > 0:
\* ceil((stop - start) / step) values from start on
Arange(start, stop, step) ==
    [k \in 1..((stop - start + step - 1) \div step) |-> start + (k - 1) * step]

\* the cells of _analyze_route_congestion in the order of its two loops, each
\* with its boundary corners
GridCells(route_data) ==
    LET xs == {route_data[k].position_x : k \in 1..Len(route_data)}
        ys == {route_data[k].position_y : k \in 1..Len(route_data)}
        grid_size == congestion_area_radius
        x_bins == Arange(SetMin(xs), SetMax(xs) + grid_size, grid_size)
        y_bins == Arange(SetMin(ys), SetMax(ys) + grid_size, grid_size)
        nx == Len(x_bins) - 1
        ny == Len(y_bins) - 1
    IN  IF nx < 1 \/ ny < 1 THEN <<>>
        ELSE [c \in 1..(nx * ny) |->
                LET i == ((c - 1) \div ny) + 1
                    j == ((c - 1) % ny) + 1
                IN  [x_start |-> x_bins[i], x_end |-> x_bins[i + 1],
                     y_start |-> y_bins[j], y_end |-> y_bins[j + 1]]]

\* whether a row lies in a cell
InCell(r, cell) ==
    /\ r.position_x >= cell.x_start
    /\ r.position_x < cell.x_end
    /\ r.position_y >= cell.y_start
    /\ r.position_y < cell.y_end

\* faulty variant of CellVehicles: the rows of the whole column of cells
CellVehiclesInColumn(route_data, cell) ==
    SelectSeq(route_data, LAMBDA r : r.position_x >= cell.x_start /\ r.position_x < cell.x_end)

\* cell_vehicles
CellVehicles(route_data, cell) == SelectSeq(route_data, LAMBDA r : InCell(r, cell))

\* faulty variant of CellCentre: the minimum corner of the cell
CellCorner(cell) == <<cell.x_start, cell.y_start>>

\* ((x_start + x_end) / 2, (y_start + y_end) / 2)
CellCentre(cell) ==
    <<(cell.x_start + cell.x_end) \div 2, (cell.y_start + cell.y_end) \div 2>>

\* len(cell_vehicles) >= self.min_vehicles_for_congestion
CellIsDense(cell_vehicles) == Len(cell_vehicles) >= min_vehicles_for_congestion

\* the body of the two loops for one cell: the points it appends, each with
\* the cell it was made for
CellPoints(route_data, cell) ==
    LET cell_vehicles == CellVehicles(route_data, cell)
    IN  IF CellIsDense(cell_vehicles)
        THEN LET avg_speed == MeanSpeed(cell_vehicles)
                 vehicle_count == Len(cell_vehicles)
                 congestion_level == ClassifyCongestion(avg_speed, vehicle_count)
             IN  IF congestion_level # "none"
                 THEN << [point |-> [location_x       |-> CellCentre(cell)[1],
                                     location_y       |-> CellCentre(cell)[2],
                                     congestion_level |-> congestion_level,
                                     average_speed    |-> avg_speed,
                                     vehicle_count    |-> vehicle_count,
                                     route_id         |-> route_data[1].route_id],
                          cell  |-> cell] >>
                 ELSE <<>>
        ELSE <<>>

RECURSIVE PointsOfCells(_, _, _)
PointsOfCells(route_data, cells, c) ==
    IF c > Len(cells) THEN <<>>
    ELSE CellPoints(route_data, cells[c]) \o PointsOfCells(route_data, cells, c + 1)

\* _analyze_route_congestion(route_data)
AnalyzeRouteCongestion(route_data) ==
    PointsOfCells(route_data, GridCells(route_data), 1)

\* no call in progress changes the engine
EngineUnchanged ==
    UNCHANGED <<ma_keys, db_routes, routes, active_vehicles, simulation_running, simulation_thread,
                vehicle_spawn_rate, worker, caller, status, db_vehicles, ticks, env>>

\* detect_congestion_points is called; window is what table traffic_data,
\* joined with routes, holds for the last `hours` hours
DetectCall ==
    /\ analytics = NoCall
    /\ \E window \in env.windows :
          analytics' = [op |-> "detect_congestion_points", pc |-> "fetch",
                        window |-> window, traffic_data |-> <<>>,
                        route_ids |-> <<>>, ri |-> 0,
                        congestion_points |-> <<>>, grids |-> <<>>,
                        si |-> 0, stored |-> <<>>, result |-> None]
    /\ EngineUnchanged

\* get_recent_traffic_data returns, the window or (having failed) an empty
\* DataFrame; on an empty DataFrame the call returns []
DetectFetch ==
    /\ analytics.op = "detect_congestion_points"
    /\ analytics.pc = "fetch"
    /\ \E outcome \in env.fetch :
          LET traffic_data == IF outcome = "ok" THEN analytics.window ELSE <<>>
          IN  analytics' =
                IF IsEmpty(traffic_data)
                THEN [analytics EXCEPT !.pc = "returned", !.result = <<>>]
                ELSE [analytics EXCEPT !.pc = "routes",
                                       !.traffic_data = traffic_data,
                                       !.route_ids = RouteIds(traffic_data),
                                       !.ri = 1]
    /\ EngineUnchanged

\* one turn of  for route_id in traffic_data['route_id'].unique():
DetectRoute ==
    /\ analytics.op = "detect_congestion_points"
    /\ analytics.pc = "routes"
    /\ analytics.ri <= Len(analytics.route_ids)
    /\ LET route_id == analytics.route_ids[analytics.ri]
           route_data == RouteData(analytics.traffic_data, route_id)
           last == analytics.ri = Len(analytics.route_ids)
           next == [analytics EXCEPT !.ri = @ + 1,
                                     !.pc = IF last THEN "store" ELSE "routes",
                                     !.si = IF last THEN 1 ELSE 0]
       IN  analytics' =
             IF Len(route_data) < min_vehicles_for_congestion
             THEN next
             ELSE [next EXCEPT
                     !.congestion_points = @ \o AnalyzeRouteCongestion(route_data),
                     !.grids = Append(@, [route_id |-> route_id,
                                          cells |-> GridCells(route_data)])]
    /\ EngineUnchanged

\* one turn of  for point in congestion_points:  a failure of
\* insert_congestion_point is logged and the loop goes on
DetectStore ==
    /\ analytics.op = "detect_congestion_points"
    /\ analytics.pc = "store"
    /\ analytics.si <= Len(analytics.congestion_points)
    /\ \E outcome \in env.store :
          analytics' = [analytics EXCEPT
              !.si = @ + 1,
              !.stored = IF outcome = "ok"
                         THEN Append(@, analytics.congestion_points[analytics.si].point)
                         ELSE @]
    /\ EngineUnchanged

\* return congestion_points
DetectReturn ==
    /\ analytics.op = "detect_congestion_points"
    /\ analytics.pc = "store"
    /\ analytics.si > Len(analytics.congestion_points)
    /\ analytics' = [analytics EXCEPT
            !.pc = "returned",
            !.result = [k \in 1..Len(analytics.congestion_points) |->
                            analytics.congestion_points[k].point]]
    /\ EngineUnchanged

\* n rows of route_id, of n vehicles at (x, y), with speeds s + 10 km/h and s
\* in turn and timestamps falling from t0
Rows(route_id, n, x, y, s, t0) ==
    [k \in 1..n |-> [vehicle_id |-> <<route_id, t0 + k>>,
                     route_id   |-> route_id,
                     speed      |-> s + 100 * (k % 2),
                     position_x |-> x,
                     position_y |-> y,
                     timestamp  |-> t0 - k]]

\* the windows in SpecDetect: 4, 5 or 10 rows of route_01 at one point, slow
\* or not; then 0 or 3 rows of route_02; then 0, 1 or 5 more rows of
\* route_01 at the same point or 50, 100 or 150 units further in x and 0, 50
\* or 100 units further in y
DetectWindows ==
    {Rows("route_01", nA, 20000, 30000, sA, 3000)
        \o Rows("route_02", nC, 0, 0, 100, 2000)
        \o Rows("route_01", nB, 20000 + dx, 30000 + dy, 600, 1000) :
        nA \in {4, 5, 10}, sA \in {200, 450}, nC \in {0, 3}, nB \in {0, 1, 5},
        dx \in {0, 5000, 10000, 15000}, dy \in {0, 5000, 10000}}

DetectDraws ==
    [windows |-> DetectWindows,
     fetch   |-> {"ok", "raises"},
     store   |-> {"ok", "raises"}]

InitDetect ==
    /\ Constructed
    /\ routes = Catalog
    /\ db_routes = InsertRoutes(<<>>, routes)
    /\ env = DetectDraws

NextDetect ==
    \/ DetectCall
    \/ DetectFetch
    \/ DetectRoute
    \/ DetectStore
    \/ DetectReturn

SpecDetect == InitDetect /\ [][NextDetect]_vars

-----------------------------------------------------------------------------
(* analytics.py: calculate_average_travel_times.  A distance is kept in     *)
(* hundredths of a unit, of which a kilometre has 10000.                    *)

\* max(total_distance, 0.1): 0.1 km in hundredths of a unit
MinimumDistance == 1000

\* s with row r put after the rows that are not later than r
InsertByTimestamp(r, s) ==
    LET k == Cardinality({i \in 1..Len(s) : s[i].timestamp < r.timestamp})
    IN  SubSeq(s, 1, k) \o <<r>> \o SubSeq(s, k + 1, Len(s))

\* df.sort_values('timestamp')
RECURSIVE SortByTimestamp(_)
SortByTimestamp(df) ==
    IF df = <<>> THEN <<>>
    ELSE InsertByTimestamp(Head(df), SortByTimestamp(Tail(df)))

\* route_data[route_data['vehicle_id'] == vehicle_id].sort_values('timestamp')
VehicleData(route_data, vehicle_id) ==
    SortByTimestamp(SelectSeq(route_data, LAMBDA r : r.vehicle_id = vehicle_id))

\* the loop of _estimate_route_distance from its i-th turn on: the sum of
\* the distances between consecutive rows
RECURSIVE TotalDistance(_, _)
TotalDistance(vehicle_data, i) ==
    IF i > Len(vehicle_data) THEN 0
    ELSE LET dx == vehicle_data[i].position_x - vehicle_data[i - 1].position_x
             dy == vehicle_data[i].position_y - vehicle_data[i - 1].position_y
         IN  ISqrt(dx * dx + dy * dy) + TotalDistance(vehicle_data, i + 1)

\* faulty variant of EstimateRouteDistance: no minimum distance
EstimateRouteDistanceUnfloored(vehicle_data) ==
    IF Len(vehicle_data) < 2 THEN 0
    ELSE TotalDistance(vehicle_data, 2)

\* _estimate_route_distance(vehicle_data)
EstimateRouteDistance(vehicle_data) ==
    IF Len(vehicle_data) < 2 THEN 0
    ELSE Max(TotalDistance(vehicle_data, 2), MinimumDistance)

\* travel_time_minutes = estimated_distance / avg_speed * 60.  With the
\* distance d in hundredths of a unit and the speed num / den in tenths of a
\* km/h this is (d / 10000) / (num / (10 * den)) * 60, which is the fraction
\* (3 * d * den) / (50 * num)
TravelTimeMinutes(estimated_distance, avg_speed) ==
    Fraction(3 * estimated_distance * avg_speed.den, 50 * avg_speed.num)

\* faulty variant of HasJourney: one row is enough
HasSample(vehicle_data) == Len(vehicle_data) >= 1

\* len(vehicle_data) >= 2
HasJourney(vehicle_data) == Len(vehicle_data) >= 2

\* the body of the loop over the vehicles of a route for one vehicle: what
\* it appends to vehicle_travel_times, with the vehicle it is for
VehicleTravelTime(route_data, vehicle_id) ==
    LET vehicle_data == VehicleData(route_data, vehicle_id)
    IN  IF HasJourney(vehicle_data)
        THEN LET avg_speed == MeanSpeed(vehicle_data)
             IN  IF avg_speed.num > 0
                 THEN << [vehicle_id |-> vehicle_id,
                          estimated_distance  |-> EstimateRouteDistance(vehicle_data),
                          travel_time_minutes |->
                              TravelTimeMinutes(EstimateRouteDistance(vehicle_data), avg_speed)] >>
                 ELSE <<>>
        ELSE <<>>

RECURSIVE VehicleTravelTimes(_, _, _)
VehicleTravelTimes(route_data, vehicle_ids, k) ==
    IF k > Len(vehicle_ids) THEN <<>>
    ELSE VehicleTravelTime(route_data, vehicle_ids[k])
            \o VehicleTravelTimes(route_data, vehicle_ids, k + 1)

\* the body of the loop over the routes for one route: the rows it appends
\* to travel_times; a row keeps the list its statistics are taken of
RouteTravelTimes(df, route_id) ==
    LET route_data == RouteData(df, route_id)
        vehicle_ids == Unique([i \in 1..Len(route_data) |-> route_data[i].vehicle_id])
        vehicle_travel_times == VehicleTravelTimes(route_data, vehicle_ids, 1)
    IN  IF vehicle_travel_times # <<>>
        THEN << [route_id |-> route_id,
                 vehicle_travel_times |-> vehicle_travel_times,
                 sample_size |-> Len(vehicle_travel_times)] >>
        ELSE <<>>

\* calculate_average_travel_times is called; window is what table
\* traffic_data, joined with routes, holds for the last `hours` hours
TravelCall ==
    /\ analytics = NoCall
    /\ \E window \in env.windows :
          analytics' = [op |-> "calculate_average_travel_times", pc |-> "fetch",
                        window |-> window, traffic_data |-> <<>>,
                        route_ids |-> <<>>, ri |-> 0,
                        travel_times |-> <<>>, result |-> None]
    /\ EngineUnchanged

\* get_recent_traffic_data returns, the window or (having failed) an empty
\* DataFrame; on an empty DataFrame the call returns an empty DataFrame
TravelFetch ==
    /\ analytics.op = "calculate_average_travel_times"
    /\ analytics.pc = "fetch"
    /\ \E outcome \in env.fetch :
          LET traffic_data == IF outcome = "ok" THEN analytics.window ELSE <<>>
          IN  analytics' =
                IF IsEmpty(traffic_data)
                THEN [analytics EXCEPT !.pc = "returned", !.result = <<>>]
                ELSE [analytics EXCEPT !.pc = "routes",
                                       !.traffic_data = traffic_data,
                                       !.route_ids = RouteIds(traffic_data),
                                       !.ri = 1]
    /\ EngineUnchanged

\* one turn of  for route_id in traffic_data['route_id'].unique():
TravelRoute ==
    /\ analytics.op = "calculate_average_travel_times"
    /\ analytics.pc = "routes"
    /\ analytics.ri <= Len(analytics.route_ids)
    /\ analytics' = [analytics EXCEPT
            !.ri = @ + 1,
            !.travel_times = @ \o RouteTravelTimes(analytics.traffic_data,
                                                   analytics.route_ids[analytics.ri])]
    /\ EngineUnchanged

\* return pd.DataFrame(travel_times)
TravelReturn ==
    /\ analytics.op = "calculate_average_travel_times"
    /\ analytics.pc = "routes"
    /\ analytics.ri > Len(analytics.route_ids)
    /\ analytics' = [analytics EXCEPT !.pc = "returned", !.result = analytics.travel_times]
    /\ EngineUnchanged

\* n rows of one vehicle of route_id, the k-th at (k - 1) * move with speed
\* speeds[k] and timestamp 10 * k + t0
Journey(route_id, vehicle, n, move, speeds, t0) ==
    [k \in 1..n |-> [vehicle_id |-> <<route_id, vehicle>>,
                     route_id   |-> route_id,
                     speed      |-> speeds[k],
                     position_x |-> (k - 1) * move[1],
                     position_y |-> (k - 1) * move[2],
                     timestamp  |-> 10 * k + t0]]

\* ORDER BY td.timestamp DESC
OrderByTimestampDesc(df) ==
    LET s == SortByTimestamp(df)
    IN  [k \in 1..Len(s) |-> s[Len(s) + 1 - k]]

\* the windows in SpecTravel: a vehicle of route_01 with 1, 2 or 5 rows,
\* standing or moving 0.005 km or 2.5 km between two rows, at speed 0, at
\* 60 km/h or at 90, 30 and then 60 km/h; with or without a second vehicle of
\* route_01 that moves 1 km at 30 km/h; and 0, 1 or 2 rows of a standing
\* vehicle of route_02 at speed 0 or 50 km/h
TravelWindows ==
    {OrderByTimestampDesc(
        Journey("route_01", 1001, n1, m1, sp1, 1)
        \o Journey("route_01", 1002, n2, <<6000, 8000>>, <<300, 300>>, 2)
        \o Journey("route_02", 1003, n3, <<0, 0>>, <<s3, s3>>, 3)) :
        n1 \in {1, 2, 5},
        m1 \in {<<0, 0>>, <<30, 40>>, <<15000, 20000>>},
        sp1 \in {<<0, 0, 0, 0, 0>>, <<600, 600, 600, 600, 600>>,
                 <<900, 300, 600, 600, 600>>},
        n2 \in {0, 2}, n3 \in {0, 1, 2}, s3 \in {0, 500}}

TravelDraws ==
    [windows |-> TravelWindows,
     fetch   |-> {"ok", "raises"}]

InitTravel ==
    /\ Constructed
    /\ routes = Catalog
    /\ db_routes = InsertRoutes(<<>>, routes)
    /\ env = TravelDraws

NextTravel ==
    \/ TravelCall
    \/ TravelFetch
    \/ TravelRoute
    \/ TravelReturn

SpecTravel == InitTravel /\ [][NextTravel]_vars

\* both analyses, on the windows of SpecDetect and of SpecTravel and on the
\* window that holds no row
AnalyticsDraws ==
    [windows |-> {<<>>} \cup DetectWindows \cup TravelWindows,
     fetch   |-> {"ok", "raises"},
     store   |-> {"ok", "raises"}]

InitAnalytics ==
    /\ Constructed
    /\ routes = Catalog
    /\ db_routes = InsertRoutes(<<>>, routes)
    /\ env = AnalyticsDraws

NextAnalytics == NextDetect \/ NextTravel

SpecAnalytics == InitAnalytics /\ [][NextAnalytics]_vars

-----------------------------------------------------------------------------
(* database.py: the operations of DatabaseManager as their callers see them *)

\* the operations that write: each logs an exception and raises it again
SinkWrites == {"insert_vehicle", "insert_traffic_data", "insert_routes",
               "insert_congestion_point", "cleanup_old_data"}

\* the operations that read: each logs an exception and returns an empty
\* DataFrame
SinkReads == {"get_recent_traffic_data", "get_congestion_data", "get_route_statistics"}

\* what a call gives its caller: selected is the rows the query of a read
\* selects, failure is "none", or "connect" if get_connection raises, or
\* "execute" if the statement does
SinkOutcome(operation, selected, failure) ==
    IF operation \in SinkReads
    THEN [raised |-> FALSE, value |-> IF failure = "none" THEN selected ELSE <<>>]
    ELSE [raised |-> failure # "none", value |-> None]

\* an operation of the sink is called: `selected` is what the query of a
\* read selects, `vehicle` the argument of insert_vehicle and of
\* insert_traffic_data, `routes` the argument of insert_routes
SinkCall ==
    /\ analytics = NoCall
    /\ \E operation \in SinkWrites \cup SinkReads,
          selected \in env.selections, failure \in env.failures,
          vehicle \in env.vehicles, rs \in env.route_lists :
          analytics' = [op |-> operation, pc |-> "called", selected |-> selected,
                        failure |-> failure, vehicle |-> vehicle, routes |-> rs,
                        raised |-> FALSE, value |-> None]
    /\ EngineUnchanged

\* and returns or raises; of the tables vehicles and routes are kept, which
\* a successful insert_vehicle and a successful insert_routes write; a call
\* that fails has committed nothing
SinkReturn ==
    /\ analytics.op \in SinkWrites \cup SinkReads
    /\ analytics.pc = "called"
    /\ LET outcome == SinkOutcome(analytics.op, analytics.selected, analytics.failure)
       IN  analytics' = [analytics EXCEPT !.pc = "returned",
                                          !.raised = outcome.raised,
                                          !.value = outcome.value]
    /\ db_vehicles' = IF analytics.op = "insert_vehicle" /\ analytics.failure = "none"
                      THEN InsertVehicle(db_vehicles, analytics.vehicle)
                      ELSE db_vehicles
    /\ db_routes' = IF analytics.op = "insert_routes" /\ analytics.failure = "none"
                    THEN InsertRoutes(db_routes, analytics.routes)
                    ELSE db_routes
    /\ UNCHANGED <<ma_keys, routes, active_vehicles, simulation_running, simulation_thread,
                   vehicle_spawn_rate, worker, caller, status, ticks, env>>

\* a route that is not in the Catalog
RouteEleven == [Catalog[1] EXCEPT !.route_id = "route_11"]

\* the calls in SpecSink: the query selects no row, one row or two rows,
\* the newest first; the vehicle written is a bus or a car; the routes
\* written are none, a new route, or a route of the Catalog under other
\* values followed by a new route
SinkDraws ==
    [selections |-> {<<>>,
                     Journey("route_01", 1001, 1, <<0, 0>>, <<600>>, 1),
                     OrderByTimestampDesc(
                         Journey("route_01", 1001, 2, <<30, 40>>, <<600, 300>>, 1))},
     route_lists |-> {<<>>, <<RouteEleven>>,
                      <<[Catalog[1] EXCEPT !.speed_limit = 0], RouteEleven>>},
     failures   |-> {"none", "connect", "execute"},
     vehicles   |-> {GenerateRandom(<<"route_01", 1000>>, "route_01",
                                    [vehicle_type |-> "bus", max_speed |-> 500], 10, 0, 0),
                     GenerateRandom(<<"route_01", 1001>>, "route_01",
                                    [vehicle_type |-> "car", max_speed |-> 1000], 5, 100, 100)}]

InitSink ==
    /\ Constructed
    /\ routes = Catalog
    /\ db_routes = InsertRoutes(<<>>, routes)
    /\ env = SinkDraws

NextSink == SinkCall \/ SinkReturn

SpecSink == InitSink /\ [][NextSink]_vars

-----------------------------------------------------------------------------
(* models.py: Route.generate_routes on its own *)


RouteDraws ==
    {RouteDraw(start, d[1], d[2], k) :
        start \in {0, 10000}, d \in {<<3000, 4000>>, <<3300, 4400>>}, k \in 0..3}

\* generate_routes is called
GenerateCall ==
    /\ analytics = NoCall
    /\ \E num_routes \in env.num_routes, draws \in env.route_draws :
          analytics' = [op |-> "generate_routes", pc |-> "called",
                        num_routes |-> num_routes, draws |-> draws, result |-> <<>>]
    /\ EngineUnchanged

\* and returns its list
GenerateReturn ==
    /\ analytics.op = "generate_routes"
    /\ analytics.pc = "called"
    /\ analytics' = [analytics EXCEPT
            !.pc = "returned",
            !.result = GenerateRoutes(analytics.num_routes, analytics.draws)]
    /\ EngineUnchanged

\* the calls in SpecGenerate: every number of routes from none to two more
\* than there are names
GenerateDraws ==
    [num_routes |-> 0..(Len(route_names) + 2), route_draws |-> RouteDraws]

InitGenerate ==
    /\ Constructed
    /\ routes = Catalog
    /\ db_routes = InsertRoutes(<<>>, routes)
    /\ env = GenerateDraws

NextGenerate == GenerateCall \/ GenerateReturn

SpecGenerate == InitGenerate /\ [][NextGenerate]_vars


-----------------------------------------------------------------------------
(* simulation.py: ticks in which random.randint draws an identifier again *)

\* the outcomes of the draws in SpecReuse: a spawned vehicle is a bus or a
\* car, and random.randint(1000, 9999) gives 1000 every time
ReuseDraws ==
    [spawn_u    |-> PerRoute({20}, {90}),
     despawn_u  |-> {5, 50},
     congest_u  |-> {20},
     types      |-> {[vehicle_type |-> "bus", max_speed |-> 500],
                     [vehicle_type |-> "car", max_speed |-> 1000]},
     init_fracs |-> {5, 10},
     var_fracs  |-> {0},
     times      |-> {180},
     sink       |-> {"ok"},
     max_n      |-> 1000,
     max_ticks  |-> MaxTicksReuse]

InitReuse ==
    /\ Constructed
    /\ routes = Catalog
    /\ db_routes = InsertRoutes(<<>>, routes)
    /\ env = ReuseDraws

SpecReuse == InitReuse /\ [][NextTick]_vars


-----------------------------------------------------------------------------
(* simulation.py: TrafficSimulation.__init__ and _initialize_routes *)

\* the number of routes _initialize_routes asks generate_routes for
CatalogSize == 10

\* table routes as an earlier run of the program left it, whose Catalog was
\* drawn differently
EarlierRun ==
    InsertRoutes(<<>>, GenerateRoutes(CatalogSize, RouteDraw(10000, 3300, 4400, 1)))

\* the constructor has assigned the fields of lines 22-32 and is about to
\* call _initialize_routes; the sink is new or holds the routes of an
\* earlier run
UnderConstruction == [op |-> "__init__", pc |-> "generate_routes", error |-> "none"]

\* a faulty variant: the except clause logs the error and goes on
ConstructorSwallows(raised) == "returned"

\* where an exception of generate_routes or of insert_routes leaves the
\* constructor: line 38 is outside the try block, and the except clause of
\* lines 42-44 logs and raises again, so __init__ raises it to its caller
\* and no object is produced
ConstructorOutcome(raised) == IF raised THEN "raised" ELSE "returned"

\* self.routes = Route.generate_routes(10)
ConstructGenerate ==
    /\ analytics = UnderConstruction
    /\ \E outcome \in env.generate_routes :
          IF outcome = "raises"
          THEN /\ analytics' = [analytics EXCEPT !.pc = ConstructorOutcome(TRUE),
                                                 !.error = "generate_routes"]
               /\ UNCHANGED routes
          ELSE \E draws \in env.route_draws :
               /\ routes' = GenerateRoutes(CatalogSize, draws)
               /\ analytics' = [analytics EXCEPT !.pc = "insert_routes"]
    /\ UNCHANGED <<ma_keys, db_routes, active_vehicles, simulation_running, simulation_thread,
                   vehicle_spawn_rate, worker, caller, status, db_vehicles, ticks, env>>

\* self.db_manager.insert_routes(self.routes) in the try block: a call that
\* fails has committed nothing
ConstructInsert ==
    /\ analytics.op = "__init__"
    /\ analytics.pc = "insert_routes"
    /\ \E failure \in env.failures :
          LET outcome == SinkOutcome("insert_routes", <<>>, failure)
          IN  /\ analytics' = [analytics EXCEPT
                      !.pc = ConstructorOutcome(outcome.raised),
                      !.error = IF outcome.raised THEN "insert_routes" ELSE "none"]
              /\ db_routes' = IF failure = "none" THEN InsertRoutes(db_routes, routes)
                              ELSE db_routes
    /\ UNCHANGED <<ma_keys, routes, active_vehicles, simulation_running, simulation_thread,
                   vehicle_spawn_rate, worker, caller, status, db_vehicles, ticks, env>>

\* the caller of the constructor holds an engine only if the constructor
\* returned
EngineProduced == analytics.op = "__init__" /\ analytics.pc = "returned"

\* the outcomes of the draws in SpecConstruct
ConstructDraws ==
    [spawn_u    |-> PerRoute({20}, {20}),
     despawn_u  |-> {50},
     congest_u  |-> {20},
     types      |-> {[vehicle_type |-> "bus", max_speed |-> 500]},
     init_fracs |-> {10},
     var_fracs  |-> {0},
     times      |-> {180},
     sink       |-> {"ok", "insert_vehicle raises"},
     max_n      |-> 1000,
     max_ticks  |-> MaxTicksConstruct,
     generate_routes |-> {"ok", "raises"},
     route_draws |-> {RouteDraw(0, 3000, 4000, 0), RouteDraw(0, 3300, 4400, 2)},
     failures   |-> {"none", "connect", "execute"}]

InitConstruct ==
    /\ routes = <<>>
    /\ active_vehicles = <<>>
    /\ ma_keys = EmptyKeys
    /\ simulation_running = FALSE
    /\ simulation_thread = 0
    /\ vehicle_spawn_rate = 30
    /\ worker = [w \in WorkerIds |-> Unborn]
    /\ caller = [c \in Callers |-> IdleCaller]
    /\ status = IdleStatus
    /\ db_vehicles = <<>>
    /\ db_routes \in {<<>>, EarlierRun}
    /\ ticks = 0
    /\ analytics = UnderConstruction
    /\ env = ConstructDraws

\* the constructor runs; start_simulation can be called on the engine it
\* produced
NextConstruct ==
    \/ ConstructGenerate
    \/ ConstructInsert
    \/ EngineProduced /\ NextTick

SpecConstruct == InitConstruct /\ [][NextConstruct]_vars


-----------------------------------------------------------------------------
(* database.py: a sequence of insert_vehicle calls *)

\* insert_vehicle is called, first or after an earlier call has returned;
\* `before` is table vehicles as the call finds it and `previous` the vehicle
\* the last successful call wrote, if there is one
UpsertCall ==
    /\ \/ analytics = NoCall
       \/ analytics.op = "insert_vehicle" /\ analytics.pc = "returned"
    /\ \E vehicle \in env.vehicles, failure \in env.failures :
          analytics' = [op |-> "insert_vehicle", pc |-> "called", selected |-> <<>>,
                        failure |-> failure, vehicle |-> vehicle, routes |-> <<>>,
                        raised |-> FALSE, value |-> None,
                        before |-> db_vehicles,
                        previous |-> IF analytics = NoCall THEN <<>>
                                     ELSE IF analytics.raised THEN analytics.previous
                                     ELSE <<analytics.vehicle>>]
    /\ EngineUnchanged

\* the vehicles written in SpecUpsert: a bus, the same bus after a tick, a car
\* spawned under the identifier of the bus, and a car of its own identifier
UpsertDraws ==
    [failures |-> {"none", "connect", "execute"},
     vehicles |-> {GenerateRandom(<<"route_01", 1000>>, "route_01",
                                  [vehicle_type |-> "bus", max_speed |-> 500], 10, 0, 0),
                   GenerateRandom(<<"route_01", 1000>>, "route_01",
                                  [vehicle_type |-> "bus", max_speed |-> 500], 5, 240, 320),
                   GenerateRandom(<<"route_01", 1000>>, "route_01",
                                  [vehicle_type |-> "car", max_speed |-> 1000], 10, 0, 0),
                   GenerateRandom(<<"route_01", 1001>>, "route_01",
                                  [vehicle_type |-> "car", max_speed |-> 1000], 5, 100, 100)}]

InitUpsert ==
    /\ Constructed
    /\ routes = Catalog
    /\ db_routes = InsertRoutes(<<>>, routes)
    /\ env = UpsertDraws

NextUpsert == UpsertCall \/ SinkReturn

SpecUpsert == InitUpsert /\ [][NextUpsert]_vars


-----------------------------------------------------------------------------
(* simulation.py: _update_vehicle_position on its own *)

\* a Catalog of three routes: one from (0, 0) to (30, 40), one the other way
\* round, and one whose end point is its start point
KinematicsCatalog ==
    << MkRoute("route_01", "Main Street", 0, 0, 3000, 4000, 50),
       MkRoute("route_02", "Highway 1", 3000, 4000, 0, 0, 60),
       MkRoute("route_03", "Broadway", 1000, 1000, 1000, 1000, 80) >>

\* _update_vehicle_position is called on a vehicle
KinematicsCall ==
    /\ analytics = NoCall
    /\ \E vehicle \in env.vehicles, f \in env.var_fracs :
          analytics' = [op |-> "_update_vehicle_position", pc |-> "called",
                        vehicle |-> vehicle, f |-> f, result |-> vehicle]
    /\ EngineUnchanged

\* and returns it
KinematicsReturn ==
    /\ analytics.op = "_update_vehicle_position"
    /\ analytics.pc = "called"
    /\ analytics' = [analytics EXCEPT
            !.pc = "returned",
            !.result = UpdateVehiclePosition(routes, analytics.vehicle, analytics.f)]
    /\ EngineUnchanged

\* the calls in SpecKinematics: a bus of each route of the Catalog and of a
\* route that is not in it, stopped, at half its max_speed or at its
\* max_speed, at (10, 10) or at (15, 20); and five speed variations
KinematicsDraws ==
    [vehicles  |-> {[GenerateRandom(<<route_id, 1000>>, route_id,
                                    [vehicle_type |-> "bus", max_speed |-> 500],
                                    0, p[1], p[2])
                        EXCEPT !.current_speed = speed] :
                       route_id \in {"route_01", "route_02", "route_03", "route_99"},
                       speed \in {0, 250, 500},
                       p \in {<<1000, 1000>>, <<1500, 2000>>}},
     var_fracs |-> {-10, -5, 0, 5, 10}]

InitKinematics ==
    /\ Constructed
    /\ routes = KinematicsCatalog
    /\ db_routes = InsertRoutes(<<>>, routes)
    /\ env = KinematicsDraws

NextKinematics == KinematicsCall \/ KinematicsReturn

SpecKinematics == InitKinematics /\ [][NextKinematics]_vars


-----------------------------------------------------------------------------
(* simulation.py: a vehicle whose route is not in the Catalog *)

\* No step of the engine makes such a vehicle: a vehicle gets its route from
\* self.routes, which is assigned once, in the constructor.  So the two
\* methods that provide for one are called here on their own:
\* _update_vehicle_position on a vehicle, and _remove_vehicles on a Registry
\* that holds one, by the only thread at work on it.

\* for vehicle_id in vehicles_to_remove: del self.active_vehicles[vehicle_id]
RECURSIVE DeleteAll(_, _)
DeleteAll(d, vehicles_to_remove) ==
    IF vehicles_to_remove = <<>> THEN d
    ELSE DeleteAll(DictDel(d, Head(vehicles_to_remove)), Tail(vehicles_to_remove))

\* _remove_vehicles on the dict d, us[i] being the draw of its i-th vehicle
RemoveVehicles(rs, d, us) == DeleteAll(d, VehiclesToRemove(rs, d, us, 1))

\* _remove_vehicles is called on a Registry
RemoveCall ==
    /\ analytics = NoCall
    /\ \E registry \in env.registries :
       \E us \in [1..Len(registry) -> env.despawn_u] :
          analytics' = [op |-> "_remove_vehicles", pc |-> "called",
                        registry |-> registry, us |-> us, result |-> registry]
    /\ EngineUnchanged

\* and returns
RemoveReturn ==
    /\ analytics.op = "_remove_vehicles"
    /\ analytics.pc = "called"
    /\ analytics' = [analytics EXCEPT
            !.pc = "returned",
            !.result = RemoveVehicles(routes, analytics.registry, analytics.us)]
    /\ EngineUnchanged

\* vehicles of a route that is not in the Catalog, standing or moving, at
\* the start of the Catalog's routes, at their end or far from both
OrphanVehicles ==
    {GenerateRandom(<<"route_99", 1000>>, "route_99",
                    [vehicle_type |-> "bus", max_speed |-> 500], frac, p[1], p[2]) :
        frac \in {0, 10}, p \in {<<0, 0>>, <<3000, 4000>>, <<100000, 100000>>}}

\* vehicles of the first route of the Catalog, at its start and near its end
CataloguedVehicles ==
    {GenerateRandom(<<"route_01", 1000>>, "route_01",
                    [vehicle_type |-> "bus", max_speed |-> 500], 10, p[1], p[2]) :
        p \in {<<0, 0>>, <<240, 320>>}}

\* the calls in SpecOrphan
OrphanDraws ==
    [vehicles   |-> OrphanVehicles \cup CataloguedVehicles,
     var_fracs  |-> {-10, 10},
     despawn_u  |-> {5, 50},
     registries |-> {<<o>> : o \in OrphanVehicles}
                    \cup {<<v, o>> : v \in CataloguedVehicles, o \in OrphanVehicles}
                    \cup {<<o, v>> : v \in CataloguedVehicles, o \in OrphanVehicles}]

InitOrphan ==
    /\ Constructed
    /\ routes = Catalog
    /\ db_routes = InsertRoutes(<<>>, routes)
    /\ env = OrphanDraws

NextOrphan ==
    \/ KinematicsCall
    \/ KinematicsReturn
    \/ RemoveCall
    \/ RemoveReturn

SpecOrphan == InitOrphan /\ [][NextOrphan]_vars


-----------------------------------------------------------------------------
(* Properties *)

BornWorkers == {w \in WorkerIds : worker[w].pc # "unborn"}

\* the step in which thread c enters start_simulation and tests the flag
IsStartCall(c) ==
    /\ caller[c].pc = "idle"
    /\ caller'[c] # caller[c]
    /\ \/ caller'[c].pc = "start_set"
       \/ caller'[c].pc = "idle" /\ caller'[c].ret = "already running"

\* C1: a start_simulation call made while the running flag is set returns at
\* once: it creates no thread and leaves the running flag, the worker
\* reference, the workers and the Registry as they were.
C1_StartWhileRunningIsNoOp ==
    [][\A c \in Callers :
          (IsStartCall(c) /\ simulation_running) =>
              /\ caller'[c].pc = "idle"
              /\ caller'[c].ret = "already running"
              /\ UNCHANGED <<simulation_running, simulation_thread, worker,
                             active_vehicles>>]_vars

\* a start call has returned "already running" while one worker exists and
\* the flag is set
C1_Witness ==
    \E c \in Callers :
        /\ caller[c].ret = "already running"
        /\ simulation_running
        /\ Cardinality(BornWorkers) = 1

\* the vehicles the current tick of worker w has passed through the
\* kinematics update and that are still active
UpdatedNow(w) ==
    {i \in 1..Len(active_vehicles) :
        active_vehicles[i].vehicle_id \in worker[w].tick.updated}

\* C2: every active vehicle has 0 <= current_speed <= max_speed, in every
\* state any sequence of ticks (kinematics update, spawn, despawn,
\* congestion modulation) can reach.
C2_SpeedWithinBounds ==
    /\ \A i \in 1..Len(active_vehicles) :
          /\ 0 <= active_vehicles[i].current_speed
          /\ active_vehicles[i].current_speed <= active_vehicles[i].max_speed
    \* and so is every vehicle generate_random can make, of any type (a
    \* statement about no variable, evaluated before the first tick only)
    /\ ticks = 0 => \A t \in VehicleTypes : \A frac \in 0..10 :
          \A m \in {MaxSpeedRange(t).lo, MaxSpeedRange(t).hi} :
             LET v == GenerateRandom(<<"route_01", 1000>>, "route_01",
                                     [vehicle_type |-> t, max_speed |-> m], frac, 0, 0)
             IN  0 <= v.current_speed /\ v.current_speed <= v.max_speed

\* in one tick the kinematics update has left one vehicle at speed 0 and
\* another at its max_speed; the latter has just moved by max_speed * 0.1
\* (from 4.0 to 9.0 units along the route), so the variation was added to
\* max_speed and clamped; two congestion modulations have run before
C2_Witness ==
    \E w \in WorkerIds : \E i, j \in UpdatedNow(w) :
        /\ active_vehicles[i].current_speed = 0
        /\ active_vehicles[j].current_speed = active_vehicles[j].max_speed
        /\ active_vehicles[j].position_x = 540
        /\ active_vehicles[j].position_y = 720
        /\ ticks = 3

\* C3: for every route, in every reachable state of the Registry, the number
\* of active vehicles whose route identifier is that route never exceeds
\* max_vehicles_per_route (20).
C3_RouteLimit ==
    \A r \in 1..Len(routes) :
        VehiclesOnRoute(active_vehicles, routes[r].route_id) <= max_vehicles_per_route

\* SpecCap reaches the state SpecRace starts in
RaceStartReached == RaceStart

\* C4: a persistence failure (insert_vehicle or insert_traffic_data raising)
\* for one vehicle does not abort the remainder of the tick: when the tick
\* is over, every vehicle active at its start has been updated, all of them
\* but the one the failure was for have been persisted, and spawn, despawn
\* and the Congestion Modulator have run.
C4_FailureIsolatedPerVehicle ==
    \A w \in WorkerIds :
        (worker[w].pc = "sleep" /\ worker[w].tick.failed) =>
            /\ worker[w].tick.start_ids \subseteq worker[w].tick.updated
            /\ Cardinality(worker[w].tick.start_ids \ worker[w].tick.persisted) <= 1
            /\ worker[w].tick.log = PhaseOrder

\* the step worker w takes after a tick that failed: time.sleep returns,
\* then the flag is read and, if it is set, the next tick is entered
StepAfterFailedTick(w) ==
    IF worker[w].pc = "sleep"
    THEN worker'[w] = [worker[w] EXCEPT !.pc = "check"]
    ELSE IF simulation_running
    THEN /\ worker'[w].pc = "update"
         /\ worker'[w].tick.prev_failed
         /\ ~worker'[w].tick.failed
         /\ ticks' = ticks + 1
    ELSE worker'[w].pc = "exited"

\* C5: a failure raised inside a tick is never fatal to the worker loop:
\* the step in which a persistence call fails leaves the worker alive, in
\* time.sleep; from there it goes to the test of the running flag, and its
\* next step with the flag set is to enter the next tick.
C5_FailureNotFatal ==
    [][\A w \in WorkerIds :
          /\ (~worker[w].tick.failed /\ worker'[w].tick.failed) => worker'[w].pc = "sleep"
          /\ (worker[w].tick.failed /\ worker'[w] # worker[w]) => StepAfterFailedTick(w)]_vars

\* the worker is in the tick after one that failed, the running flag being
\* set, and has updated and persisted the first vehicle again
C5_Witness ==
    \E w \in WorkerIds :
        /\ worker[w].tick.prev_failed
        /\ simulation_running
        /\ worker[w].pc = "update"
        /\ worker[w].it.di_pos = 1
        /\ active_vehicles[1].vehicle_id \in worker[w].tick.persisted

\* whether sequence s is a prefix of sequence t
IsPrefix(s, t) == Len(s) <= Len(t) /\ s = SubSeq(t, 1, Len(s))

\* C6: every tick performs its phases in this order: the kinematics update
\* of every vehicle active at the start of the tick, each followed by
\* persisting that vehicle; then spawn, then despawn; then the Congestion
\* Modulator.  No phase starts before the previous one has finished for all
\* vehicles, and a tick that ends without an exception has performed all.
C6_PhaseOrder ==
    \A w \in WorkerIds :
        LET wr == worker[w]
        IN  /\ IsPrefix(wr.tick.log, PhaseOrder)
            /\ wr.tick.persisted \subseteq wr.tick.updated
            /\ wr.pc \in {"update", "move", "vary", "store_speed", "insert_vehicle",
                         "commit_vehicle", "insert_traffic_data"} =>
                  wr.tick.log = <<>>
            /\ wr.tick.log # <<>> =>
                  /\ wr.tick.start_ids \subseteq wr.tick.updated
                  /\ wr.tick.start_ids \subseteq wr.tick.persisted
            /\ wr.pc \in {"spawn", "count", "condition", "draw", "insert"} =>
                  wr.tick.log = <<"spawn">> /\ wr.ri <= Len(routes)
            /\ wr.pc = "remove" => wr.tick.log = <<"spawn">> /\ wr.ri > Len(routes)
            /\ wr.pc \in {"scan", "look", "delete", "simulate_congestion"} =>
                  wr.tick.log = <<"spawn", "despawn">> /\ wr.ri > Len(routes)
            /\ wr.pc \in {"simulate_congestion", "congest", "slow", "floor"} =>
                  wr.to_remove = <<>>
            /\ wr.pc \in {"congest", "slow", "floor"} => wr.tick.log = PhaseOrder
            /\ (wr.pc = "sleep" /\ ~wr.tick.failed) => wr.tick.log = PhaseOrder

\* a tick that began with two active vehicles and removed one of them has
\* run the Congestion Modulator and ended without an exception
C6_Witness ==
    \E w \in WorkerIds :
        /\ worker[w].pc = "sleep"
        /\ worker[w].tick.log = PhaseOrder
        /\ ~worker[w].tick.failed
        /\ Cardinality(worker[w].tick.start_ids) = 2
        /\ Len(worker[w].tick.scanned) = 2
        /\ Len(active_vehicles) = 1

\* C7: stopping is cooperative and bounded: stop_simulation called on a
\* running scheduler clears the flag and waits at most the timeout for the
\* worker, which starts no further tick once it has read the flag as cleared
\* and then exits; the flag is false when stop_simulation returns.  Stated
\* here is the last part: whenever a stop_simulation call that found the
\* flag set has returned, the flag was false at its return.
C7_FlagClearedWhenStopReturns ==
    \A c \in Callers :
        caller[c].ret = "stopped" => ~caller[c].running_at_return

\* C8: external callers synchronize with the worker on the Registry and the
\* running flag: no status query is between its reads of the Registry while
\* a worker is in the middle of adding an entry (between the count of a
\* route and the insertion) or of removing entries (in its deletion loop),
\* and no two start_simulation calls are both between their test of the
\* flag and their write of it.
C8_CallersSynchronized ==
    /\ status.pc \in {"types", "count"} =>
          \A w \in WorkerIds :
              worker[w].pc \notin {"condition", "draw", "insert", "delete"}
    /\ Cardinality({c \in Callers : caller[c].pc = "start_set"}) <= 1

\* the square of the Euclidean distance of v to the end point of its route,
\* for a vehicle whose route is in the Catalog
SquaredDistanceToEnd(v) ==
    LET r == CHOOSE r \in Range(routes) : r.route_id = v.route_id
    IN  (v.position_x - r.end_point[1]) * (v.position_x - r.end_point[1])
        + (v.position_y - r.end_point[2]) * (v.position_y - r.end_point[2])

\* the vehicles of the Catalog's routes that the scan of worker w's last
\* despawn pass saw, by their index in the scan
Scanned(w) ==
    {i \in 1..Len(worker[w].tick.scanned) :
        \E r \in Range(routes) : r.route_id = worker[w].tick.scanned[i].route_id}

\* C9: when a despawn pass is over, every vehicle it saw at a distance
\* strictly below 50 from the end point of its route is gone from the
\* Registry whatever its draw was, and a vehicle it saw at distance 50 or
\* more is gone only if its draw was below despawn_rate (and then it is).
C9_DespawnRule ==
    \A w \in WorkerIds :
        worker[w].pc = "simulate_congestion" =>
            \A i \in Scanned(w) :
                LET v == worker[w].tick.scanned[i]
                    gone == v.vehicle_id \notin Keys(active_vehicles)
                IN  IF SquaredDistanceToEnd(v) < DespawnDistance * DespawnDistance
                    THEN gone
                    ELSE gone <=> worker[w].tick.us[i] < vehicle_despawn_rate

\* a despawn pass is over that saw one vehicle below distance 50, for which
\* random.random() was not called, and removed it, and one vehicle at
\* distance 50 exactly whose draw was not below despawn_rate, and kept it
C9_Witness ==
    \E w \in WorkerIds :
        /\ worker[w].pc = "simulate_congestion"
        /\ \E i, j \in Scanned(w) :
              LET v == worker[w].tick.scanned[i]
                  x == worker[w].tick.scanned[j]
              IN  /\ SquaredDistanceToEnd(v) < DespawnDistance * DespawnDistance
                  /\ worker[w].tick.us[i] = -1
                  /\ v.vehicle_id \notin Keys(active_vehicles)
                  /\ SquaredDistanceToEnd(x) = DespawnDistance * DespawnDistance
                  /\ worker[w].tick.us[j] >= vehicle_despawn_rate
                  /\ x.vehicle_id \in Keys(active_vehicles)

\* the vehicles of the Registry d whose route is not in the Catalog
Orphans(d) == {i \in 1..Len(d) : GetRouteById(routes, d[i].route_id) = NoRoute}

\* C10: a vehicle whose route identifier is not in the Route Catalog is
\* removed by the despawn pass whatever its position and its draw, the pass
\* returns, leaving every other vehicle as it was, and the kinematics update
\* leaves the vehicle's position and speed as they were.
C10_UncataloguedRoute ==
    /\ (analytics.op = "_remove_vehicles" /\ analytics.pc = "returned") =>
          /\ \A i \in Orphans(analytics.registry) :
                analytics.registry[i].vehicle_id \notin Keys(analytics.result)
          /\ \A k \in 1..Len(analytics.result) :
                \E i \in 1..Len(analytics.registry) :
                    analytics.result[k] = analytics.registry[i]
    /\ (analytics.op = "_update_vehicle_position" /\ analytics.pc = "returned"
            /\ GetRouteById(routes, analytics.vehicle.route_id) = NoRoute) =>
          analytics.result = analytics.vehicle

\* _remove_vehicles has removed a vehicle of a route not in the Catalog that
\* is far from every route and whose draw was not below despawn_rate, and
\* has kept the vehicle of route_01 that was in the Registry before it
C10_Witness ==
    /\ analytics.op = "_remove_vehicles"
    /\ analytics.pc = "returned"
    /\ Len(analytics.registry) = 2
    /\ analytics.registry[2].route_id = "route_99"
    /\ analytics.registry[2].position_x = 100000
    /\ analytics.registry[2].current_speed = 400
    /\ analytics.us[2] >= vehicle_despawn_rate
    /\ analytics.result = <<analytics.registry[1]>>

\* the step in which worker w draws the identifier and looks it up
IsDrawStep(w) == worker[w].pc = "draw" /\ worker'[w] # worker[w]

\* the step in which worker w stores the vehicle it has generated
IsInsertStep(w) == worker[w].pc = "insert" /\ worker'[w] # worker[w]

\* C11: no two vehicles of the Registry share an identifier; the Registry
\* grows only where the spawn condition stores a vehicle; a spawn whose
\* identifier is found active leaves the Registry as it is; and a spawn that
\* stores a vehicle leaves every vehicle of the Registry untouched and
\* appends one vehicle whose identifier was not active, whose route is the
\* spawning route and whose position is that route's start point
C11_SpawnNeverReusesLiveId ==
    /\ [](\A i, j \in 1..Len(active_vehicles) :
             active_vehicles[i].vehicle_id = active_vehicles[j].vehicle_id => i = j)
    /\ [][/\ Len(active_vehicles') > Len(active_vehicles) =>
                \E w \in WorkerIds : IsInsertStep(w)
          /\ \A w \in WorkerIds : IsDrawStep(w) => active_vehicles' = active_vehicles
          /\ \A w \in WorkerIds : IsInsertStep(w) =>
                LET n == Len(active_vehicles)
                    route == routes[worker[w].ri]
                    v == active_vehicles'[n + 1]
                IN  /\ Len(active_vehicles') = n + 1
                    /\ SubSeq(active_vehicles', 1, n) = active_vehicles
                    /\ v.vehicle_id \notin Keys(active_vehicles)
                    /\ v.vehicle_id[1] = route.route_id
                    /\ v.route_id = route.route_id
                    /\ v.position_x = route.start_point[1]
                    /\ v.position_y = route.start_point[2]]_vars

\* a tick has spawned a vehicle at the start of the route while a vehicle
\* spawned earlier, which has moved on, was active on the same route
C11_Witness ==
    \E w \in WorkerIds :
        /\ worker[w].pc = "remove"
        /\ Len(active_vehicles) = 2
        /\ active_vehicles[1].vehicle_id \in worker[w].tick.start_ids
        /\ active_vehicles[1].position_x > routes[1].start_point[1]
        /\ active_vehicles[2].vehicle_id \notin worker[w].tick.start_ids
        /\ active_vehicles[2].route_id = active_vehicles[1].route_id
        /\ active_vehicles[2].position_x = routes[1].start_point[1]

\* C12: when _simulate_congestion has run at time of day now, the spawn rate
\* is 0.5 and the multiplier 0.6 if now lies in 07:00-09:00 or 17:00-19:00,
\* and the spawn rate is 0.3 and the multiplier 1.0 at every other time
C12_RushHourPolicy ==
    \A w \in WorkerIds :
        (worker[w].pc = "sleep" /\ worker[w].tick.now # -1) =>
            LET now == worker[w].tick.now
                in_windows == \/ (7 * 60 <= now /\ now <= 9 * 60)
                              \/ (17 * 60 <= now /\ now <= 19 * 60)
            IN
            IF in_windows
            THEN vehicle_spawn_rate = 50 /\ worker[w].tick.congestion_factor = 6
            ELSE vehicle_spawn_rate = 30 /\ worker[w].tick.congestion_factor = 10

\* C13: in a tick run during a rush-hour window the spawn condition compares
\* its draw with 0.5, and in a tick run outside the windows with 0.3; the
\* time of the tick is the one its _simulate_congestion reads
C13_SpawnRateOfTheTick ==
    \A w \in WorkerIds :
        (worker[w].pc = "sleep" /\ worker[w].tick.now # -1
            /\ worker[w].tick.spawn_rate # -1) =>
            LET now == worker[w].tick.now
                in_windows == \/ (7 * 60 <= now /\ now <= 9 * 60)
                              \/ (17 * 60 <= now /\ now <= 19 * 60)
            IN  worker[w].tick.spawn_rate = IF in_windows THEN 50 ELSE 30

\* C14: _classify_congestion returns high if avg_speed <= 30 and count >= 10;
\* otherwise medium if avg_speed <= 50 and count >= 7; otherwise low if
\* count >= 5; otherwise none
C14_ClassificationPrecedence ==
    (analytics.op = "_classify_congestion" /\ analytics.pc = "returned") =>
        LET s == analytics.avg_speed
            n == analytics.vehicle_count
            high == s.num <= 300 * s.den /\ n >= 10
            medium == s.num <= 500 * s.den /\ n >= 7
            low == n >= 5
        IN  /\ high => analytics.result = "high"
            /\ (~high /\ medium) => analytics.result = "medium"
            /\ (~high /\ ~medium /\ low) => analytics.result = "low"
            /\ (~high /\ ~medium /\ ~low) => analytics.result = "none"
            /\ n = 4 => analytics.result = "none"

\* the call with avg_speed 25 and count 12 has returned high
C14_Witness ==
    /\ analytics.op = "_classify_congestion"
    /\ analytics.pc = "returned"
    /\ analytics.avg_speed = Fraction(250, 1)
    /\ analytics.vehicle_count = 12
    /\ analytics.result = "high"

\* C15: for every route the detector has processed, the cells are squares of
\* side 100 aligned to the minimum corner of the bounding rectangle of the
\* route's rows, and every row of the route lies in exactly one cell
C15_GridTilesBoundingRectangle ==
    analytics.op = "detect_congestion_points" =>
        \A g \in 1..Len(analytics.grids) :
            LET route_data == RouteData(analytics.traffic_data, analytics.grids[g].route_id)
                cells == analytics.grids[g].cells
                x_min == SetMin({route_data[k].position_x : k \in 1..Len(route_data)})
                y_min == SetMin({route_data[k].position_y : k \in 1..Len(route_data)})
            IN  /\ \A c \in 1..Len(cells) :
                      /\ cells[c].x_end - cells[c].x_start = 10000
                      /\ cells[c].y_end - cells[c].y_start = 10000
                      /\ (cells[c].x_start - x_min) % 10000 = 0
                      /\ (cells[c].y_start - y_min) % 10000 = 0
                /\ \A k \in 1..Len(route_data) :
                      Cardinality({c \in 1..Len(cells) : InCell(route_data[k], cells[c])}) = 1

\* the rows of route_id in DataFrame df that lie in cell
RowsInCell(df, route_id, cell) ==
    {k \in 1..Len(df) :
        /\ df[k].route_id = route_id
        /\ cell.x_start <= df[k].position_x /\ df[k].position_x < cell.x_end
        /\ cell.y_start <= df[k].position_y /\ df[k].position_y < cell.y_end}

RECURSIVE SumSpeedOf(_, _)
SumSpeedOf(df, K) ==
    IF K = {} THEN 0
    ELSE LET k == CHOOSE k \in K : TRUE
         IN  df[k].speed + SumSpeedOf(df, K \ {k})

\* C16: a route with fewer than 5 rows in the window is not processed; every
\* point emitted has a level low, medium or high, the number (at least 5)
\* and the mean speed of exactly the rows of its route that lie in its cell;
\* and no two points of a route have the same cell
C16_EmittedPointsAreDense ==
    analytics.op = "detect_congestion_points" =>
        LET df == analytics.traffic_data
            points == analytics.congestion_points
        IN  /\ \A g \in 1..Len(analytics.grids) :
                  Len(RouteData(df, analytics.grids[g].route_id)) >= 5
            /\ \A p \in 1..Len(points) :
                  LET point == points[p].point
                      K == RowsInCell(df, point.route_id, points[p].cell)
                  IN  /\ \E g \in 1..Len(analytics.grids) :
                            /\ analytics.grids[g].route_id = point.route_id
                            /\ points[p].cell \in Range(analytics.grids[g].cells)
                      /\ point.vehicle_count = Cardinality(K)
                      /\ point.vehicle_count >= 5
                      /\ point.congestion_level \in {"low", "medium", "high"}
                      /\ point.average_speed = Fraction(SumSpeedOf(df, K), Cardinality(K))
            /\ \A p, q \in 1..Len(points) :
                  (points[p].point.route_id = points[q].point.route_id
                      /\ points[p].cell = points[q].cell) => p = q
            /\ analytics.pc = "returned" =>
                  /\ Len(analytics.result) = Len(points)
                  /\ \A p \in 1..Len(points) : analytics.result[p] = points[p].point

\* the call has returned one point for a window in which route_02 has three
\* rows and route_01 has four rows in one cell and five in another
C16_Witness ==
    /\ analytics.op = "detect_congestion_points"
    /\ analytics.pc = "returned"
    /\ Len(RouteData(analytics.traffic_data, "route_02")) = 3
    /\ Len(analytics.result) = 1
    /\ analytics.result[1].route_id = "route_01"
    /\ analytics.result[1].vehicle_count = 5
    /\ Len(RouteData(analytics.traffic_data, "route_01")) = 9

\* C17: the location of every point emitted is the midpoint of the two
\* boundary corners of its cell
C17_LocationIsCellMidpoint ==
    analytics.op = "detect_congestion_points" =>
        \A p \in 1..Len(analytics.congestion_points) :
            LET point == analytics.congestion_points[p].point
                cell == analytics.congestion_points[p].cell
            IN  /\ 2 * point.location_x = cell.x_start + cell.x_end
                /\ 2 * point.location_y = cell.y_start + cell.y_end

\* the call has returned a point whose cell is not the first of its grid
C17_Witness ==
    /\ analytics.op = "detect_congestion_points"
    /\ analytics.pc = "returned"
    /\ \E p \in 1..Len(analytics.congestion_points) :
          /\ analytics.congestion_points[p].cell.x_start = 30000
          /\ analytics.congestion_points[p].cell.y_start = 30000
          /\ analytics.result[p].location_x = 35000
          /\ analytics.result[p].location_y = 35000

\* the rows of a vehicle of a route in DataFrame df
RowsOfVehicle(df, route_id, vehicle_id) ==
    {k \in 1..Len(df) : df[k].route_id = route_id /\ df[k].vehicle_id = vehicle_id}

\* the pairs of rows among K that are consecutive in time
ConsecutiveInTime(df, K) ==
    {p \in K \X K :
        /\ df[p[1]].timestamp < df[p[2]].timestamp
        /\ ~\E c \in K : /\ df[p[1]].timestamp < df[c].timestamp
                         /\ df[c].timestamp < df[p[2]].timestamp}

RECURSIVE SumOfDistances(_, _)
SumOfDistances(df, P) ==
    IF P = {} THEN 0
    ELSE LET p == CHOOSE p \in P : TRUE
             dx == df[p[2]].position_x - df[p[1]].position_x
             dy == df[p[2]].position_y - df[p[1]].position_y
         IN  ISqrt(dx * dx + dy * dy) + SumOfDistances(df, P \ {p})

\* C18: the travel time of a vehicle in minutes is (distance_km / mean speed)
\* * 60, distance_km being the sum of the distances between its rows that are
\* consecutive in time, divided by 100, and at least 0.1.  With d the sum in
\* hundredths of a unit (0.1 km is 1000), n rows and S the sum of their
\* speeds in tenths of a km/h, that is the fraction (3 * d * n) / (50 * S).
C18_TravelTimeFormula ==
    analytics.op = "calculate_average_travel_times" =>
        \A r \in 1..Len(analytics.travel_times) :
            LET row == analytics.travel_times[r]
            IN  \A e \in 1..Len(row.vehicle_travel_times) :
                    LET entry == row.vehicle_travel_times[e]
                        K == RowsOfVehicle(analytics.traffic_data, row.route_id,
                                           entry.vehicle_id)
                        total == SumOfDistances(analytics.traffic_data,
                                     ConsecutiveInTime(analytics.traffic_data, K))
                        d == IF total < 1000 THEN 1000 ELSE total
                        S == SumSpeedOf(analytics.traffic_data, K)
                    IN  /\ entry.estimated_distance = d
                        /\ entry.travel_time_minutes.num = 3 * d * Cardinality(K)
                        /\ entry.travel_time_minutes.den = 50 * S

\* the call has returned 10 minutes for a vehicle that went 10 km at a mean
\* speed of 60 km/h, and 0.12 minutes (0.1 km at 50 km/h) for a vehicle that
\* did not move
C18_Witness ==
    /\ analytics.op = "calculate_average_travel_times"
    /\ analytics.pc = "returned"
    /\ Len(analytics.result) = 2
    /\ \E e \in 1..Len(analytics.result[1].vehicle_travel_times) :
          LET entry == analytics.result[1].vehicle_travel_times[e]
          IN  /\ entry.estimated_distance = 100000
              /\ entry.travel_time_minutes.den = 50 * 5 * 600
              /\ entry.travel_time_minutes.num = 10 * entry.travel_time_minutes.den
    /\ LET entry == analytics.result[2].vehicle_travel_times[1]
       IN  /\ \A k \in RowsOfVehicle(analytics.traffic_data, "route_02", entry.vehicle_id) :
                 /\ analytics.traffic_data[k].position_x = 0
                 /\ analytics.traffic_data[k].position_y = 0
                 /\ analytics.traffic_data[k].speed = 500
           /\ entry.estimated_distance = 1000
           /\ 100 * entry.travel_time_minutes.num = 12 * entry.travel_time_minutes.den

\* the vehicles of a route in df that have at least two rows and a positive
\* mean speed
Contributing(df, route_id) ==
    {v \in {df[k].vehicle_id : k \in {k \in 1..Len(df) : df[k].route_id = route_id}} :
        /\ Cardinality(RowsOfVehicle(df, route_id, v)) >= 2
        /\ SumSpeedOf(df, RowsOfVehicle(df, route_id, v)) > 0}

\* C19: in the table returned, a route with no contributing vehicle has no
\* row, and a route with contributing vehicles has one row, whose sample_size
\* is the number of them
C19_SampleSize ==
    (analytics.op = "calculate_average_travel_times" /\ analytics.pc = "returned"
        /\ analytics.traffic_data # <<>>) =>
        /\ \A r \in 1..Len(analytics.result) :
              analytics.result[r].route_id \in Range(analytics.route_ids)
        /\ \A route_id \in Range(analytics.route_ids) :
              LET contributing == Contributing(analytics.traffic_data, route_id)
                  rows == {r \in 1..Len(analytics.result) :
                              analytics.result[r].route_id = route_id}
              IN  IF contributing = {} THEN rows = {}
                  ELSE /\ Cardinality(rows) = 1
                       /\ \A r \in rows :
                             analytics.result[r].sample_size = Cardinality(contributing)

\* the call has returned one row, of sample_size 1, for a window in which
\* route_01 has a vehicle with two rows and a vehicle with one row, and the
\* only vehicle of route_02 has two rows of speed 0
C19_Witness ==
    /\ analytics.op = "calculate_average_travel_times"
    /\ analytics.pc = "returned"
    /\ Len(analytics.result) = 1
    /\ analytics.result[1].route_id = "route_01"
    /\ analytics.result[1].sample_size = 1
    /\ Cardinality({analytics.traffic_data[k].vehicle_id :
                       k \in {k \in 1..Len(analytics.traffic_data) :
                                 analytics.traffic_data[k].route_id = "route_01"}}) = 2
    /\ Cardinality({k \in 1..Len(analytics.traffic_data) :
                       /\ analytics.traffic_data[k].route_id = "route_02"
                       /\ analytics.traffic_data[k].speed = 0}) = 2

\* C20: what a failed call of a sink operation gives its caller (an exception,
\* or a value) is given by no successful call of that operation
C20_SinkFailureIsExplicit ==
    (analytics.op \in SinkWrites \cup SinkReads /\ analytics.pc = "returned"
        /\ analytics.failure # "none") =>
        \A selected \in env.selections :
            SinkOutcome(analytics.op, selected, "none")
                # [raised |-> analytics.raised, value |-> analytics.value]

\* C21: on a window that holds no row, detect_congestion_points returns an
\* empty list and calculate_average_travel_times an empty table; neither
\* goes on to its loops, and nothing is written to the sink
C21_EmptyWindow ==
    (analytics.op \in {"detect_congestion_points", "calculate_average_travel_times"}
        /\ analytics.window = <<>>) =>
        /\ analytics.pc \in {"fetch", "returned"}
        /\ analytics.pc = "returned" => analytics.result = <<>>
        /\ analytics.op = "detect_congestion_points" =>
              analytics.stored = <<>> /\ analytics.congestion_points = <<>>
        /\ db_vehicles = <<>>

\* detect_congestion_points has returned on the empty window after a
\* successful fetch
C21_Witness ==
    /\ analytics.op = "detect_congestion_points"
    /\ analytics.window = <<>>
    /\ analytics.pc = "returned"
    /\ analytics.result = <<>>

\* C24: generate_routes called for N routes, N from 0 to 10, returns exactly
\* N routes whose identifiers are pairwise distinct, each with a speed limit
\* of 50, 60, 80 or 100
C24_CatalogGeneration ==
    (analytics.op = "generate_routes" /\ analytics.pc = "returned"
        /\ analytics.num_routes \in 0..10) =>
        LET result == analytics.result
        IN  /\ Len(result) = analytics.num_routes
            /\ \A i, j \in 1..Len(result) :
                  i # j => result[i].route_id # result[j].route_id
            /\ \A i \in 1..Len(result) : result[i].speed_limit \in {50, 60, 80, 100}

\* a call for 10 routes has returned 10 routes, the last one route_10
C24_Witness ==
    /\ analytics.op = "generate_routes"
    /\ analytics.pc = "returned"
    /\ analytics.num_routes = 10
    /\ Len(analytics.result) = 10
    /\ analytics.result[10].route_id = "route_10"
    /\ analytics.result[1].route_id = "route_01"

\* C22: a failure of generate_routes or of insert_routes during construction
\* is fatal: the constructor raises, no engine is produced and no worker is
\* ever started; whereas a worker whose tick failed on the sink goes on
C22_ConstructionFailureIsFatal ==
    /\ (analytics.op = "__init__" /\ analytics.error # "none") =>
          /\ analytics.pc = "raised"
          /\ ~EngineProduced
          /\ \A w \in WorkerIds : worker[w] = Unborn
          /\ \A c \in Callers : caller[c] = IdleCaller
          /\ ~simulation_running
          /\ simulation_thread = 0
          /\ ticks = 0
    /\ (analytics.op = "__init__" /\ analytics.pc = "raised") => analytics.error # "none"
    /\ \A w \in WorkerIds :
          (worker[w].tick.failed \/ worker[w].tick.prev_failed) =>
              worker[w].pc \notin {"unborn", "exited"}

\* insert_routes failed on a sink that held the routes of an earlier run
C22_Witness ==
    /\ analytics.op = "__init__"
    /\ analytics.error = "insert_routes"
    /\ analytics.pc = "raised"
    /\ Len(routes) = CatalogSize
    /\ db_routes = EarlierRun

\* C30: once the constructor has returned, every route of the Catalog equals
\* the record table routes holds under its identifier, in start point, end
\* point, distance and speed limit, whatever the table held before
C30_CatalogEqualsSink ==
    EngineProduced =>
        \A i \in 1..Len(routes) :
            /\ routes[i].route_id \in DOMAIN db_routes
            /\ LET record == db_routes[routes[i].route_id]
               IN  /\ record.start_point = routes[i].start_point
                   /\ record.end_point = routes[i].end_point
                   /\ record.distance_km = routes[i].distance_km
                   /\ record.speed_limit = routes[i].speed_limit

\* C23: insert_vehicle is idempotent per vehicle identifier: a successful
\* call leaves exactly the identifiers the table had and the vehicle's own,
\* each with one record, the records of the other identifiers as they were;
\* and a successful call that writes the vehicle the last successful call
\* wrote leaves the table as that call left it
C23_UpsertIdempotent ==
    (analytics.op = "insert_vehicle" /\ analytics.pc = "returned" /\ ~analytics.raised) =>
        LET v == analytics.vehicle
        IN  /\ DOMAIN db_vehicles = DOMAIN analytics.before \cup {v.vehicle_id}
            /\ Cardinality(DOMAIN db_vehicles)
                   <= Cardinality({w.vehicle_id : w \in env.vehicles})
            /\ \A id \in DOMAIN analytics.before :
                  id # v.vehicle_id => db_vehicles[id] = analytics.before[id]
            /\ db_vehicles[v.vehicle_id].vehicle_id = v.vehicle_id
            /\ analytics.previous = <<v>> => db_vehicles = analytics.before

\* the moved bus has been written twice in a row
C23_Witness ==
    /\ analytics.op = "insert_vehicle"
    /\ analytics.pc = "returned"
    /\ ~analytics.raised
    /\ analytics.previous = <<analytics.vehicle>>
    /\ analytics.vehicle.position_x = 240
    /\ db_vehicles = analytics.before

\* the step in which worker w runs _simulate_congestion up to its loop
IsRateStep(w) == worker[w].pc = "simulate_congestion" /\ worker'[w].pc = "congest"

\* a step of worker w in the loop of _simulate_congestion
IsCongestStep(w) ==
    worker[w].pc \in {"congest", "slow", "floor"} /\ worker'[w] # worker[w]

\* the vehicle the turn of that loop worker w is in has drawn below 0.3 for
AffectedNow(w) ==
    LET us == worker[w].tick.congest_us
    IN  IF worker[w].pc \in {"slow", "floor"} /\ us # <<>> /\ us[Len(us)].u < 30
        THEN us[Len(us)].vehicle_id ELSE NoKey

\* C25: _simulate_congestion changes nothing but current_speed and the spawn
\* rate: the Registry keeps its keys in their order, every vehicle keeps its
\* identifier, category, max_speed, route and position, a vehicle whose draw
\* is 0.3 or more keeps its speed, and a vehicle whose draw is below 0.3 gets
\* max(5, current_speed * congestion_factor), which is at least 5; and when
\* the call has returned, every vehicle has had its draw, once
C25_CongestionFrame ==
    /\ [](\A w \in WorkerIds :
            (worker[w].pc = "sleep" /\ ~worker[w].tick.failed) =>
                [i \in 1..Len(worker[w].tick.congest_us) |->
                    worker[w].tick.congest_us[i].vehicle_id]
                = [i \in 1..Len(active_vehicles) |-> active_vehicles[i].vehicle_id])
    /\ [][\A w \in WorkerIds :
            /\ IsRateStep(w) =>
                  UNCHANGED <<active_vehicles, ma_keys, routes, db_vehicles, db_routes,
                              simulation_running, simulation_thread, ticks>>
            /\ IsCongestStep(w) =>
                  LET before_us == worker[w].tick.congest_us
                      after_us  == worker'[w].tick.congest_us
                      factor    == worker[w].tick.congestion_factor
                  IN  /\ Len(active_vehicles') = Len(active_vehicles)
                      /\ Len(after_us) = IF worker[w].pc = "congest"
                                            /\ worker'[w].pc # "sleep"
                                         THEN Len(before_us) + 1 ELSE Len(before_us)
                      \* a turn whose draw is below 0.3 goes on to the
                      \* multiplication and from there to the assignment
                      \* of the maximum, any other is over
                      /\ worker[w].pc = "congest" /\ worker'[w].pc # "sleep" =>
                            worker'[w].pc = IF after_us[Len(after_us)].u < 30
                                            THEN "slow" ELSE "congest"
                      /\ worker[w].pc = "slow" => worker'[w].pc = "floor"
                      /\ worker[w].pc = "floor" => worker'[w].pc = "congest"
                      /\ \A i \in 1..Len(active_vehicles) :
                            LET before == active_vehicles[i]
                                after  == active_vehicles'[i]
                                scaled == (before.current_speed * factor) \div 10
                            IN  /\ [after EXCEPT !.current_speed = before.current_speed]
                                      = before
                                /\ IF before.vehicle_id # AffectedNow(w)
                                   THEN after.current_speed = before.current_speed
                                   ELSE IF worker[w].pc = "slow"
                                   THEN /\ after.current_speed = scaled
                                        /\ worker'[w].speed =
                                              IF scaled >= 50 THEN scaled ELSE 50
                                   ELSE /\ after.current_speed = worker[w].speed
                                        /\ after.current_speed =
                                              IF before.current_speed >= 50
                                              THEN before.current_speed ELSE 50
                                        /\ after.current_speed >= 50
                      /\ UNCHANGED <<ma_keys, routes, db_vehicles, db_routes,
                                     simulation_running, simulation_thread, ticks,
                                     vehicle_spawn_rate>>]_vars

\* in the rush hour a stopped vehicle was affected and left at 5 km/h, and a
\* vehicle was left alone
C25_Witness ==
    \E w \in WorkerIds :
        /\ worker[w].pc = "sleep"
        /\ ~worker[w].tick.failed
        /\ worker[w].tick.congestion_factor = 6
        /\ \E i \in 1..Len(active_vehicles) :
              /\ worker[w].tick.congest_us[i].u < 30
              /\ active_vehicles[i].current_speed = 50
        /\ \E i \in 1..Len(active_vehicles) : worker[w].tick.congest_us[i].u >= 30

\* C26: _update_vehicle_position leaves identifier, category, max_speed and
\* route as they are; on a catalogued route whose end differs from its start
\* the vehicle moves by current_speed * 0.1, the speed being the one it had
\* on entry, along the direction from start to end; on a route whose end is
\* its start the position is unchanged; and the new speed is the old one
\* plus a term within 0.2 * max_speed either way, clamped to [0, max_speed]
C26_Kinematics ==
    (analytics.op = "_update_vehicle_position" /\ analytics.pc = "returned") =>
        LET before == analytics.vehicle
            after  == analytics.result
            route  == GetRouteById(routes, before.route_id)
            mx     == after.position_x - before.position_x
            my     == after.position_y - before.position_y
            bound  == (before.max_speed * 2) \div 10
        IN  /\ after.vehicle_id = before.vehicle_id
            /\ after.vehicle_type = before.vehicle_type
            /\ after.max_speed = before.max_speed
            /\ after.route_id = before.route_id
            /\ route # NoRoute =>
                  LET dx == route.end_point[1] - route.start_point[1]
                      dy == route.end_point[2] - route.start_point[2]
                  IN  /\ route.start_point = route.end_point => mx = 0 /\ my = 0
                      /\ route.start_point # route.end_point =>
                            /\ mx * mx + my * my = before.current_speed * before.current_speed
                            /\ mx * dy = my * dx
                            /\ mx * dx + my * dy >= 0
                      /\ \E variation \in (0 - bound)..bound :
                            after.current_speed =
                                IF before.current_speed + variation < 0 THEN 0
                                ELSE IF before.current_speed + variation > before.max_speed
                                     THEN before.max_speed
                                     ELSE before.current_speed + variation
                      /\ 0 <= after.current_speed /\ after.current_speed <= after.max_speed

\* a bus at 25 km/h on the route from (30, 40) to (0, 0) has moved 2.5 units
\* towards (0, 0) and then gained 10 km/h
C26_Witness ==
    /\ analytics.op = "_update_vehicle_position"
    /\ analytics.pc = "returned"
    /\ analytics.vehicle.route_id = "route_02"
    /\ analytics.vehicle.current_speed = 250
    /\ analytics.result.position_x = analytics.vehicle.position_x - 150
    /\ analytics.result.position_y = analytics.vehicle.position_y - 200
    /\ analytics.result.current_speed = 350

\* the threads that are in simulation_loop: started and not yet returned
WorkersInLoop == {w \in WorkerIds : worker[w].pc \notin {"unborn", "created", "exited"}}

\* C27: over every interleaving of start_simulation and stop_simulation
\* calls, at most one worker thread is in the tick loop at any time
C27_AtMostOneWorker == Cardinality(WorkersInLoop) <= 1

\* C28: at the end of every tick, failed or not, no active vehicle of a
\* catalogued route is within 50 units of the end point of its route
C28_NoVehicleNearEndAfterTick ==
    \A w \in WorkerIds :
        worker[w].pc = "sleep" =>
            \A i \in 1..Len(active_vehicles) :
                LET v == active_vehicles[i]
                    route == GetRouteById(routes, v.route_id)
                IN  route # NoRoute =>
                        LET ddx == v.position_x - route.end_point[1]
                            ddy == v.position_y - route.end_point[2]
                        IN  ddx * ddx + ddy * ddy >= 5000 * 5000

\* C29: every record of table vehicles has 0 <= current_speed <= max_speed,
\* and the record of a vehicle that is active and was written in the current
\* tick carries that vehicle's category and max_speed, also when its
\* identifier belonged to another vehicle before
C29_SinkRecordMatchesVehicle ==
    /\ \A id \in DOMAIN db_vehicles :
          /\ 0 <= db_vehicles[id].current_speed
          /\ db_vehicles[id].current_speed <= db_vehicles[id].max_speed
    /\ \A w \in WorkerIds : \A i \in 1..Len(active_vehicles) :
          LET v == active_vehicles[i]
          IN  v.vehicle_id \in worker[w].tick.persisted =>
                /\ v.vehicle_id \in DOMAIN db_vehicles
                /\ db_vehicles[v.vehicle_id].vehicle_type = v.vehicle_type
                /\ db_vehicles[v.vehicle_id].max_speed = v.max_speed

====
